---- MODULE Spec2Model ----
(***************************************************************************)
(* Signal Relay: a stateless gateway that turns JSON-RPC 2.0 (MCP)         *)
(* requests into REST calls to the SocioLogic backend.                     *)
(*                                                                         *)
(* The repository holds two copies of the worker entry point: the one of   *)
(* src/src/index.ts (15 tools, paired with the second half of tools.ts)    *)
(* and the one of src/unnamed/part_001 (20 tools, prompts and resources,   *)
(* paired with the first half of tools.ts).  The variable `deployment`     *)
(* says which of the two is running.  Both use src/src/api-client.ts.      *)
(*                                                                         *)
(* Strings the code computes on (header values) are sequences of           *)
(* one-character strings; strings it only compares are TLA+ strings.       *)
(***************************************************************************)
EXTENDS Integers, Sequences, FiniteSets, TLC

VARIABLES
    deployment,  \* "legacy" (src/src/index.ts) or "current" (part_001)
    slots,       \* the requests the worker may have in flight at once
    pc,          \* slot -> position of the request's handler
    http,        \* slot -> request line and headers as fetch() sees them
    body,        \* slot -> the body request.text() delivered
    handler,     \* slot -> the per-request MCPHandler/SocioLogicClient
    rpc,         \* slot -> the MCPRequest handed to handleRequest
    calls,       \* slot -> sequence of outbound requests issued so far
    net,         \* slot -> state of the outbound call in flight
    timer,       \* slot -> the AbortController timer of the call in flight
    resp         \* slot -> the Response returned by fetch()

vars == <<deployment, slots, pc, http, body, handler, rpc, calls, net, timer, resp>>

(***************************************************************************)
(* Character strings                                                       *)
(***************************************************************************)

\* headers.get() returns null for a header that is absent
NoHeader == [present |-> FALSE, s |-> <<>>]

Hdr(s) == [present |-> TRUE, s |-> s]

Digits == {"0", "1", "2", "3", "4", "5", "6", "7", "8", "9"}

DigitVal(c) ==
    CASE c = "0" -> 0 [] c = "1" -> 1 [] c = "2" -> 2 [] c = "3" -> 3
      [] c = "4" -> 4 [] c = "5" -> 5 [] c = "6" -> 6 [] c = "7" -> 7
      [] c = "8" -> 8 [] c = "9" -> 9

IsSpace(c) == c \in {" ", "\t"}

RECURSIVE TrimStart(_)
TrimStart(s) ==
    IF s # <<>> /\ IsSpace(Head(s)) THEN TrimStart(Tail(s)) ELSE s

RECURSIVE TrimEnd(_)
TrimEnd(s) ==
    IF s # <<>> /\ IsSpace(s[Len(s)]) THEN TrimEnd(SubSeq(s, 1, Len(s) - 1)) ELSE s

\* String.prototype.trim
trim(s) == TrimEnd(TrimStart(s))

IsPrefix(p, s) == Len(p) <= Len(s) /\ SubSeq(s, 1, Len(p)) = p

RECURSIVE ReplaceFrom(_, _, _)
ReplaceFrom(s, pat, rep) ==
    IF Len(s) < Len(pat) THEN s
    ELSE IF IsPrefix(pat, s) THEN rep \o SubSeq(s, Len(pat) + 1, Len(s))
    ELSE <<Head(s)>> \o ReplaceFrom(Tail(s), pat, rep)

\* String.prototype.replace with a string pattern: the first occurrence only,
\* wherever it is
replace(s, pat, rep) == ReplaceFrom(s, pat, rep)

RECURSIVE DigitsValue(_, _)
DigitsValue(s, acc) ==
    IF s # <<>> /\ Head(s) \in Digits
    THEN DigitsValue(Tail(s), acc * 10 + DigitVal(Head(s)))
    ELSE acc

\* parseInt(s, 10): leading white space, an optional sign, then the longest
\* run of digits; NaN when there is no digit
parseInt(s) ==
    LET t    == TrimStart(s)
        neg  == t # <<>> /\ Head(t) = "-"
        u    == IF t # <<>> /\ Head(t) \in {"-", "+"} THEN Tail(t) ELSE t
    IN  IF u = <<>> \/ Head(u) \notin Digits
        THEN [nan |-> TRUE, n |-> 0]
        ELSE [nan |-> FALSE,
              n |-> IF neg THEN 0 - DigitsValue(u, 0) ELSE DigitsValue(u, 0)]

(***************************************************************************)
(* JSON values.  A scalar is [t |-> type, v |-> text]; a number's text on  *)
(* the wire is its literal, in the program it is the double it denotes.    *)
(***************************************************************************)

J(t, v) == [t |-> t, v |-> v]

Absent == J("absent", "")

JNull == J("null", "")

\* JSON.parse of a number literal: the nearest IEEE-754 double.  Integers up
\* to 2^53 are exact, 2^53 + 1 rounds to 2^53, and a literal beyond the
\* double range is Infinity
NumberFromLiteral(lit) ==
    CASE lit = "9007199254740993" -> "9007199254740992"
      [] lit = "1e999" -> "Infinity"
      [] OTHER -> lit

\* JSON.parse applied to one scalar of the body
JSONparse(w) == IF w.t = "number" THEN J("number", NumberFromLiteral(w.v)) ELSE w

\* JSON.stringify applied to one property value: undefined is left out,
\* a non-finite number is written as null
JSONstringify(x) ==
    IF x.t = "number" /\ x.v = "Infinity" THEN JNull ELSE x

\* `x ?? null`
OrNull(x) == IF x.t \in {"absent", "null"} THEN JNull ELSE x

(***************************************************************************)
(* src/src/tools.ts: schemas and tool definitions                          *)
(***************************************************************************)

\* A z.object schema: its keys in declaration order, the keys that are
\* neither .optional() nor .default(), and the defaults of the others
Schema(fields, required, defaults) ==
    [fields |-> fields, required |-> required, defaults |-> defaults]

Dflt(fs) == [f \in fs |-> IF f = "format" THEN "pdf" ELSE "default"]

ListPersonasSchema ==
    Schema(<<"visibility", "category", "fidelity_tier", "search", "page", "per_page">>,
           {}, Dflt({"visibility", "page", "per_page"}))

GetPersonaSchema == Schema(<<"slug">>, {"slug"}, Dflt({}))

CreatePersonaSchema ==
    Schema(<<"description", "fidelity_tier">>, {"description"}, Dflt({"fidelity_tier"}))

InterviewPersonaSchema ==
    Schema(<<"slug", "message", "conversation_id", "include_memory", "save_conversation">>,
           {"slug", "message"}, Dflt({"include_memory", "save_conversation"}))

GetPersonaMemoriesSchema ==
    Schema(<<"slug", "query", "limit">>, {"slug"}, Dflt({"limit"}))

ListCampaignsSchema ==
    Schema(<<"status", "limit", "offset", "include_interviews">>,
           {}, Dflt({"limit", "offset", "include_interviews"}))

GetCampaignSchema == Schema(<<"id">>, {"id"}, Dflt({}))

CreateCampaignSchema ==
    Schema(<<"name", "description", "questions", "persona_brief", "persona_count",
             "fidelity_tier", "existing_persona_ids", "focus_group_ids",
             "research_context">>,
           {"name", "questions"}, Dflt({"persona_count", "fidelity_tier"}))

ExecuteCampaignSchema == Schema(<<"id">>, {"id"}, Dflt({}))

ExportCampaignSchema == Schema(<<"id", "format">>, {"id"}, Dflt({"format"}))

ListFocusGroupsSchema == Schema(<<"limit", "offset">>, {}, Dflt({"limit", "offset"}))

GetFocusGroupSchema == Schema(<<"id">>, {"id"}, Dflt({}))

CreateFocusGroupSchema == Schema(<<"name", "description">>, {"name"}, Dflt({}))

AddPersonasToFocusGroupSchema ==
    Schema(<<"focus_group_id", "persona_ids">>, {"focus_group_id", "persona_ids"}, Dflt({}))

GetCreditsBalanceSchema == Schema(<<>>, {}, Dflt({}))

\* Schema.extend({x402_payment: X402PaymentSchema.optional()})
ExtendWithPayment(schema) ==
    Schema(Append(schema.fields, "x402_payment"), schema.required, schema.defaults)

InterviewPersonaWithPaymentSchema == ExtendWithPayment(InterviewPersonaSchema)

CreatePersonaWithPaymentSchema == ExtendWithPayment(CreatePersonaSchema)

GetX402DiscoverySchema == Schema(<<>>, {}, Dflt({}))

ScrapeUrlSchema ==
    Schema(<<"url", "formats", "only_main_content">>, {"url"},
           Dflt({"formats", "only_main_content"}))

SearchWebSchema == Schema(<<"query", "limit">>, {"query"}, Dflt({"limit"}))

ResearchTopicSchema ==
    Schema(<<"topic", "source_count">>, {"topic"}, Dflt({"source_count"}))

GetCompanyInfoSchema == Schema(<<"url">>, {"url"}, Dflt({}))

ToolDef(name, inputSchema) == [name |-> name, inputSchema |-> inputSchema]

\* The first fifteen entries, whose names both copies of tools.ts declare
CommonToolNames ==
    <<"sociologic_list_personas", "sociologic_get_persona",
      "sociologic_create_persona", "sociologic_interview_persona",
      "sociologic_get_persona_memories", "sociologic_list_campaigns",
      "sociologic_get_campaign", "sociologic_create_campaign",
      "sociologic_execute_campaign", "sociologic_export_campaign",
      "sociologic_list_focus_groups", "sociologic_get_focus_group",
      "sociologic_create_focus_group", "sociologic_add_personas_to_focus_group",
      "sociologic_get_credits_balance">>

CommonSchemas ==
    <<ListPersonasSchema, GetPersonaSchema, CreatePersonaSchema,
      InterviewPersonaSchema, GetPersonaMemoriesSchema, ListCampaignsSchema,
      GetCampaignSchema, CreateCampaignSchema, ExecuteCampaignSchema,
      ExportCampaignSchema, ListFocusGroupsSchema, GetFocusGroupSchema,
      CreateFocusGroupSchema, AddPersonasToFocusGroupSchema,
      GetCreditsBalanceSchema>>

\* tools.ts lines 638-714: the tool list the legacy entry point imports
TOOL_DEFINITIONS_LEGACY ==
    [i \in 1..15 |-> ToolDef(CommonToolNames[i], CommonSchemas[i])]

\* tools.ts lines 236-480: the tool list the current entry point imports
TOOL_DEFINITIONS_CURRENT ==
    [i \in 1..15 |->
        ToolDef(CommonToolNames[i],
                CASE i = 3 -> CreatePersonaWithPaymentSchema
                  [] i = 4 -> InterviewPersonaWithPaymentSchema
                  [] OTHER -> CommonSchemas[i])]
    \o <<ToolDef("sociologic_get_x402_discovery", GetX402DiscoverySchema),
         ToolDef("sociologic_scrape_url", ScrapeUrlSchema),
         ToolDef("sociologic_search_web", SearchWebSchema),
         ToolDef("sociologic_research_topic", ResearchTopicSchema),
         ToolDef("sociologic_get_company_info", GetCompanyInfoSchema)>>

TOOL_DEFINITIONS(dep) ==
    IF dep = "legacy" THEN TOOL_DEFINITIONS_LEGACY ELSE TOOL_DEFINITIONS_CURRENT

DeclaredNames(dep) ==
    {TOOL_DEFINITIONS(dep)[i].name : i \in 1..Len(TOOL_DEFINITIONS(dep))}

DeclaredSchema(dep, name) ==
    LET defs == TOOL_DEFINITIONS(dep)
        i    == CHOOSE k \in 1..Len(defs) : defs[k].name = name
    IN  defs[i].inputSchema

(***************************************************************************)
(* Tool arguments.  An arguments value is [t |-> type, f |-> the supplied  *)
(* keys with the class of each value]: "invalid" fails the key's schema,   *)
(* any other class passes it.                                              *)
(***************************************************************************)

Args(t, f) == [t |-> t, f |-> f]

NoFields == [k \in {} |-> ""]

ArgsAbsent == Args("absent", NoFields)

RECURSIVE IssuePaths(_, _)
\* the keys of `schema`, in declaration order, at which zod raises an issue
IssuePaths(fields, check) ==
    IF fields = <<>> THEN <<>>
    ELSE (IF check[Head(fields)] THEN <<Head(fields)>> ELSE <<>>)
         \o IssuePaths(Tail(fields), check)

SeqToSet(q) == {q[i] : i \in 1..Len(q)}

\* schema.safeParse(args): a non-object fails with one issue whose path is
\* empty; an object fails at each required key it lacks and at each
\* supplied key whose value is invalid; unknown keys are stripped; a key
\* left out takes its default
safeParse(schema, args) ==
    LET keys  == SeqToSet(schema.fields)
        bad   == [k \in keys |->
                    IF k \in DOMAIN args.f THEN args.f[k] = "invalid"
                    ELSE k \in schema.required]
        paths == IF args.t # "object" THEN <<"">> ELSE IssuePaths(schema.fields, bad)
        data  == [k \in keys |->
                    IF args.t = "object" /\ k \in DOMAIN args.f THEN args.f[k]
                    ELSE IF k \in DOMAIN schema.defaults THEN schema.defaults[k]
                    ELSE "undefined"]
    IN  [success |-> paths = <<>>, paths |-> paths, data |-> data]

\* An Error's message: a fixed text followed by the interpolated parts
Msg(text, detail) == [text |-> text, detail |-> detail]

NoMsg == Msg("", <<>>)

\* safeParseArgs that returns result.data without looking at result.success
returnUnchecked(result) == [threw |-> FALSE, error |-> NoMsg, data |-> result.data]

\* safeParseArgs, given the result of schema.safeParse(args): the parsed
\* data, or the Error it throws.  The message joins `path: message` of each
\* issue, the path left out when it is empty
throwUnlessSuccess(result) ==
    [threw |-> ~result.success,
     error |-> IF result.success THEN NoMsg
               ELSE Msg("Invalid parameters: ", result.paths),
     data  |-> result.data]

safeParseArgs(schema, args) == throwUnlessSuccess(safeParse(schema, args))

(***************************************************************************)
(* src/src/api-client.ts: SocioLogicClient                                 *)
(***************************************************************************)

DEFAULT_TIMEOUT_MS == 30000

NoPayment == [present |-> FALSE, scheme |-> "", network |-> "", payload |-> ""]

\* what executeTool extracts from parsed.x402_payment
X402PaymentConfig(v) ==
    IF v = "undefined" THEN NoPayment
    ELSE [present |-> TRUE,
          scheme  |-> IF v = "full" THEN "custom-scheme" ELSE "",
          network |-> IF v = "full" THEN "custom-network" ELSE "",
          payload |-> "payload"]

\* the X-Payment header of request(): base64 of the JSON of the header object
PaymentHeader(x402Payment) ==
    IF ~x402Payment.present THEN NoPayment
    ELSE [present |-> TRUE,
          scheme  |-> IF x402Payment.scheme # "" THEN x402Payment.scheme ELSE "exact",
          network |-> IF x402Payment.network # "" THEN x402Payment.network
                      ELSE "eip155:8453",
          payload |-> x402Payment.payload]

\* One outbound fetch(): who issued it, the request line, the credential
\* and payment headers, and the timer armed for it (timeoutMs = 0: none)
OutboundCall(fn, method, path, apiKey, payment, timeoutMs) ==
    [fn |-> fn, method |-> method, path |-> path, apiKey |-> apiKey,
     payment |-> payment, timeoutMs |-> timeoutMs]

NoCall == OutboundCall("", "", "", NoHeader, NoPayment, 0)

\* request() that sends no X-API-Key header
requestWithoutKey(client, method, path, timeoutMs, x402Payment) ==
    OutboundCall("request", method, path, NoHeader,
                 PaymentHeader(x402Payment), timeoutMs)

\* request() that reads the key of a client shared by all requests, the
\* one constructed for the key k1
requestWithSharedKey(client, method, path, timeoutMs, x402Payment) ==
    OutboundCall("request", method, path, Hdr(<<"k", "1">>),
                 PaymentHeader(x402Payment), timeoutMs)

\* request() up to its `await fetch(...)`: headers, timer, options
request(client, method, path, timeoutMs, x402Payment) ==
    OutboundCall("request", method, path, Hdr(client.apiKey),
                 PaymentHeader(x402Payment), timeoutMs)

\* getX402Discovery() up to its `await fetch(...)`: an Accept header only,
\* no AbortController and no timer
getX402Discovery(client) ==
    OutboundCall("getX402Discovery", "GET", "/.well-known/x402.json",
                 NoHeader, NoPayment, 0)

\* the value a client method resolves to
ApiResponse(kind, code, message) == [kind |-> kind, code |-> code, message |-> message]

NoValue == ApiResponse("", "", "")

ErrorResponse(code, message) == ApiResponse("error", code, message)

\* a parsed body returned as it is: code names its shape (an object with an
\* error member, an object without one, or null)
JsonResponse(shape) == ApiResponse("json", shape, "")

HasError(v) == v.kind = "error" \/ (v.kind = "json" /\ v.code = "error")

HttpStatuses == {200, 402, 404, 500}

HttpCode(status) ==
    CASE status = 402 -> "HTTP_402" [] status = 404 -> "HTTP_404"
      [] status = 500 -> "HTTP_500" [] OTHER -> "HTTP_200"

ok(status) == status >= 200 /\ status <= 299

\* the endpoint and timeout of each client method that forwards to request()
ClientMethod(name) ==
    CASE name = "listPersonas" -> <<"GET", "/api/v1/personas", DEFAULT_TIMEOUT_MS>>
      [] name = "getPersona" -> <<"GET", "/api/v1/personas/{slug}", DEFAULT_TIMEOUT_MS>>
      [] name = "createPersona" -> <<"POST", "/api/v1/personas", 30000>>
      [] name = "interviewPersona" ->
            <<"POST", "/api/v1/personas/{slug}/interview", 30000>>
      [] name = "getPersonaMemories" ->
            <<"GET", "/api/v1/personas/{slug}/memories", DEFAULT_TIMEOUT_MS>>
      [] name = "listCampaigns" -> <<"GET", "/api/v1/campaigns", DEFAULT_TIMEOUT_MS>>
      [] name = "getCampaign" -> <<"GET", "/api/v1/campaigns/{id}", DEFAULT_TIMEOUT_MS>>
      [] name = "createCampaign" -> <<"POST", "/api/v1/campaigns", DEFAULT_TIMEOUT_MS>>
      [] name = "executeCampaign" ->
            <<"POST", "/api/v1/campaigns/{id}/execute", DEFAULT_TIMEOUT_MS>>
      [] name = "exportCampaign" ->
            <<"GET", "/api/v1/campaigns/{id}/export", DEFAULT_TIMEOUT_MS>>
      [] name = "listFocusGroups" -> <<"GET", "/api/v1/focus-groups", DEFAULT_TIMEOUT_MS>>
      [] name = "getFocusGroup" ->
            <<"GET", "/api/v1/focus-groups/{id}", DEFAULT_TIMEOUT_MS>>
      [] name = "createFocusGroup" ->
            <<"POST", "/api/v1/focus-groups", DEFAULT_TIMEOUT_MS>>
      [] name = "addPersonasToFocusGroup" ->
            <<"POST", "/api/v1/focus-groups/{id}/personas", DEFAULT_TIMEOUT_MS>>
      [] name = "getCreditsBalance" ->
            <<"GET", "/api/v1/auth/validate", DEFAULT_TIMEOUT_MS>>
      [] name = "scrapeUrl" -> <<"POST", "/api/v1/research/scrape", 60000>>
      [] name = "searchWeb" -> <<"POST", "/api/v1/research/search", 60000>>
      [] name = "researchTopic" -> <<"POST", "/api/v1/research/topic", 90000>>
      [] name = "getCompanyInfo" -> <<"POST", "/api/v1/research/company", 60000>>

\* What a step of the program does next: return `value`, throw `error`,
\* or suspend on the outbound `call`
Returns(value) == [o |-> "return", value |-> value, error |-> NoMsg, call |-> NoCall]

Throws(error) == [o |-> "throw", value |-> NoValue, error |-> error, call |-> NoCall]

Awaits(call) == [o |-> "await", value |-> NoValue, error |-> NoMsg, call |-> call]

\* a client method that is one call of request()
Forward(client, name, x402Payment) ==
    LET m == ClientMethod(name)
    IN  Awaits(request(client, m[1], m[2], m[3], x402Payment))

\* an exportCampaign that fetches the export whatever the format
exportCampaignAlwaysFetches(client, format) == Forward(client, "exportCampaign", NoPayment)

\* exportCampaign: for pdf the URL is returned and nothing is fetched
exportCampaign(client, format) ==
    IF format = "pdf"
    THEN Returns(ApiResponse("export", "pdf", "Use the export_url to download the PDF report."))
    ELSE Forward(client, "exportCampaign", NoPayment)

(***************************************************************************)
(* index.ts: MCPHandler                                                    *)
(***************************************************************************)

PARSE_ERROR == -32700

INVALID_REQUEST == -32600

METHOD_NOT_FOUND == -32601

INVALID_PARAMS == -32602

INTERNAL_ERROR == -32603

MAX_REQUEST_SIZE == 1048576

\* new SocioLogicClient({ apiUrl, apiKey })
SocioLogicClient(apiKey) == [constructed |-> TRUE, apiKey |-> apiKey]

NoClient == [constructed |-> FALSE, apiKey |-> <<>>]

\* the `result` member of an MCPResponse: what it holds (type), the entries
\* of its tools, prompts or resources array, and the backend value it wraps
Result(type, items, value) == [type |-> type, items |-> items, value |-> value]

NoResult == Result("", <<>>, NoValue)

\* A response body: a JSON-RPC response (jsonrpc "2.0") or a plain error
\* object whose code is a string (ecode)
ResponseBody(jsonrpc, id, kind, code, ecode, msg, result, tool) ==
    [jsonrpc |-> jsonrpc, id |-> id, kind |-> kind, code |-> code, ecode |-> ecode,
     msg |-> msg, result |-> result, tool |-> tool]

NoBody == ResponseBody("", Absent, "", 0, "", NoMsg, NoResult, Absent)

RpcResult(id, result) ==
    ResponseBody("2.0", id, "result", 0, "", NoMsg, result, Absent)

RpcError(id, code, msg, tool) ==
    ResponseBody("2.0", id, "error", code, "", msg, NoResult, tool)

HttpError(ecode, msg) ==
    ResponseBody("", Absent, "error", 0, ecode, msg, NoResult, Absent)

\* What an async method of the handler does: resolve with a response,
\* reject, or suspend on an outbound call
Resolve(response) == [o |-> "resolve", response |-> response, call |-> NoCall]

Reject == [o |-> "reject", response |-> NoBody, call |-> NoCall]

Suspend(call) == [o |-> "suspend", response |-> NoBody, call |-> call]

\* case labels of executeTool in src/src/index.ts
LegacyCases == SeqToSet(CommonToolNames)

\* case labels of executeTool in src/unnamed/part_001
CurrentCases ==
    LegacyCases \cup {"sociologic_get_x402_discovery", "sociologic_scrape_url",
                      "sociologic_search_web", "sociologic_research_topic",
                      "sociologic_get_company_info"}

\* an executeTool that has the case labels of src/src/index.ts only
executeToolCasesLegacyOnly(dep) == LegacyCases

executeToolCases(dep) == IF dep = "legacy" THEN LegacyCases ELSE CurrentCases

\* the schema each validating case of executeTool hands to safeParseArgs;
\* create_persona and interview_persona use the payment schemas in the
\* current entry point
CaseSchema(dep, n) ==
    CASE n = "sociologic_list_personas" -> ListPersonasSchema
      [] n = "sociologic_get_persona" -> GetPersonaSchema
      [] n = "sociologic_create_persona" ->
            IF dep = "legacy" THEN CreatePersonaSchema ELSE CreatePersonaWithPaymentSchema
      [] n = "sociologic_interview_persona" ->
            IF dep = "legacy" THEN InterviewPersonaSchema
            ELSE InterviewPersonaWithPaymentSchema
      [] n = "sociologic_get_persona_memories" -> GetPersonaMemoriesSchema
      [] n = "sociologic_list_campaigns" -> ListCampaignsSchema
      [] n = "sociologic_get_campaign" -> GetCampaignSchema
      [] n = "sociologic_create_campaign" -> CreateCampaignSchema
      [] n = "sociologic_execute_campaign" -> ExecuteCampaignSchema
      [] n = "sociologic_export_campaign" -> ExportCampaignSchema
      [] n = "sociologic_list_focus_groups" -> ListFocusGroupsSchema
      [] n = "sociologic_get_focus_group" -> GetFocusGroupSchema
      [] n = "sociologic_create_focus_group" -> CreateFocusGroupSchema
      [] n = "sociologic_add_personas_to_focus_group" -> AddPersonasToFocusGroupSchema
      [] n = "sociologic_scrape_url" -> ScrapeUrlSchema
      [] n = "sociologic_search_web" -> SearchWebSchema
      [] n = "sociologic_research_topic" -> ResearchTopicSchema
      [] n = "sociologic_get_company_info" -> GetCompanyInfoSchema

\* the client method each case of executeTool calls
CaseMethod(n) ==
    CASE n = "sociologic_list_personas" -> "listPersonas"
      [] n = "sociologic_get_persona" -> "getPersona"
      [] n = "sociologic_create_persona" -> "createPersona"
      [] n = "sociologic_interview_persona" -> "interviewPersona"
      [] n = "sociologic_get_persona_memories" -> "getPersonaMemories"
      [] n = "sociologic_list_campaigns" -> "listCampaigns"
      [] n = "sociologic_get_campaign" -> "getCampaign"
      [] n = "sociologic_create_campaign" -> "createCampaign"
      [] n = "sociologic_execute_campaign" -> "executeCampaign"
      [] n = "sociologic_export_campaign" -> "exportCampaign"
      [] n = "sociologic_list_focus_groups" -> "listFocusGroups"
      [] n = "sociologic_get_focus_group" -> "getFocusGroup"
      [] n = "sociologic_create_focus_group" -> "createFocusGroup"
      [] n = "sociologic_add_personas_to_focus_group" -> "addPersonasToFocusGroup"
      [] n = "sociologic_get_credits_balance" -> "getCreditsBalance"
      [] n = "sociologic_get_x402_discovery" -> "getX402Discovery"
      [] n = "sociologic_scrape_url" -> "scrapeUrl"
      [] n = "sociologic_search_web" -> "searchWeb"
      [] n = "sociologic_research_topic" -> "researchTopic"
      [] n = "sociologic_get_company_info" -> "getCompanyInfo"

\* the cases that call the client without validating the arguments
UnvalidatedCases == {"sociologic_get_credits_balance", "sociologic_get_x402_discovery"}

\* the cases that pass parsed.x402_payment on to the client
PaidCases(dep) ==
    IF dep = "legacy" THEN {}
    ELSE {"sociologic_create_persona", "sociologic_interview_persona"}

\* a validating case of executeTool, after safeParseArgs: the Error is
\* thrown on, or the client method is called with the parsed data
callClient(dep, client, n, parsed) ==
    IF parsed.threw THEN Throws(parsed.error)
    ELSE IF n = "sociologic_export_campaign"
    THEN exportCampaign(client, parsed.data["format"])
    ELSE Forward(client, CaseMethod(n),
                 IF n \in PaidCases(dep) THEN X402PaymentConfig(parsed.data["x402_payment"])
                 ELSE NoPayment)

\* executeTool(name, args): the switch over the tool name
executeTool(dep, client, name, args) ==
    IF name.t # "string" \/ name.v \notin executeToolCases(dep)
    THEN Throws(Msg("Unknown tool: ", <<name.v>>))
    ELSE IF name.v = "sociologic_get_credits_balance"
    THEN Forward(client, "getCreditsBalance", NoPayment)
    ELSE IF name.v = "sociologic_get_x402_discovery"
    THEN Awaits(getX402Discovery(client))
    ELSE callClient(dep, client, name.v,
                    safeParseArgs(CaseSchema(dep, name.v), args))

\* handleToolsCall, once executeTool has resolved to `value`
toolsCallResult(id, value) == RpcResult(id, Result("content", <<>>, value))

\* a catch clause of handleToolsCall that leaves data.tool out
toolsCallErrorUntagged(id, name, error) == RpcError(id, INTERNAL_ERROR, error, Absent)

\* handleToolsCall, its catch clause
toolsCallError(id, name, error) == RpcError(id, INTERNAL_ERROR, error, name)

\* handleToolsCall, after `await this.executeTool(name, args)`
afterExecuteTool(id, name, step) ==
    CASE step.o = "throw" -> Resolve(toolsCallError(id, name, step.error))
      [] step.o = "return" -> Resolve(toolsCallResult(id, step.value))
      [] step.o = "await" -> Suspend(step.call)

\* handleToolsCall(id, params): the destructuring of params is outside the
\* try block, so null or undefined params reject the returned promise
handleToolsCall(dep, client, id, params) ==
    IF params.t \in {"absent", "null"} THEN Reject
    ELSE afterExecuteTool(id, params.name,
                          executeTool(dep, client, params.name, params.args))

\* handleInitialize that returns the capabilities whatever the validation says
initializeResultUnchecked(id, validation) ==
    RpcResult(id, Result("initialize", <<>>, NoValue))

\* handleInitialize, once getCreditsBalance has resolved to `validation`.
\* A null body makes `validation.error` throw, which handleRequest catches
\* because it awaits handleInitialize
initializeResult(id, validation) ==
    IF validation.kind = "json" /\ validation.code = "null"
    THEN RpcError(id, INTERNAL_ERROR, Msg("Cannot read properties of null", <<>>), Absent)
    ELSE IF HasError(validation)
    THEN RpcError(id, INVALID_REQUEST,
                  Msg("API key validation failed: ", <<validation.message>>), Absent)
    ELSE RpcResult(id, Result("initialize", <<>>, NoValue))

handleInitialize(client) == Suspend(request(client, "GET", "/api/v1/auth/validate",
                                            DEFAULT_TIMEOUT_MS, NoPayment))

RECURSIVE ToolNames(_)
ToolNames(defs) ==
    IF defs = <<>> THEN <<>> ELSE <<Head(defs).name>> \o ToolNames(Tail(defs))

\* zodToJsonSchema(tool.inputSchema, {target: "jsonSchema7"}) of a z.object:
\* an object schema with the keys as properties and the required keys
zodToJsonSchema(schema) ==
    [type |-> "object", properties |-> SeqToSet(schema.fields),
     required |-> schema.required]

\* one element of the array tools/list returns
ToolEntry(tool) ==
    [name |-> tool.name, inputSchema |-> zodToJsonSchema(tool.inputSchema)]

\* handleToolsList that drops the first declared tool
handleToolsListTail(dep, id) ==
    RpcResult(id, Result("tools",
                         [i \in 1..(Len(TOOL_DEFINITIONS(dep)) - 1) |->
                             ToolEntry(TOOL_DEFINITIONS(dep)[i + 1])],
                         NoValue))

\* TOOL_DEFINITIONS.map(tool => ({name, description, inputSchema, ...}))
handleToolsList(dep, id) ==
    RpcResult(id, Result("tools",
                         [i \in 1..Len(TOOL_DEFINITIONS(dep)) |->
                             ToolEntry(TOOL_DEFINITIONS(dep)[i])],
                         NoValue))

\* one element of the array prompts/list returns: its name and the names
\* of its arguments, required or not
Prompt(name, arguments) == [name |-> name, arguments |-> arguments]

PromptArgument(name, required) == [name |-> name, required |-> required]

\* handlePromptsList that answers an empty array
handlePromptsListEmpty(id) == RpcResult(id, Result("prompts", <<>>, NoValue))

handlePromptsList(id) ==
    RpcResult(id, Result("prompts",
        <<Prompt("interview_persona",
                 <<PromptArgument("persona_type", FALSE),
                   PromptArgument("topic", TRUE)>>),
          Prompt("run_research_campaign",
                 <<PromptArgument("research_question", TRUE),
                   PromptArgument("persona_count", FALSE)>>),
          Prompt("competitive_analysis",
                 <<PromptArgument("product", TRUE),
                   PromptArgument("competitors", TRUE)>>)>>,
        NoValue))

\* one element of the array resources/list returns: its uri, character by
\* character
Resource(uri) == [uri |-> uri]

handleResourcesList(id) ==
    RpcResult(id, Result("resources",
        <<\* sociologic://personas/marketplace
          Resource(<<"s", "o", "c", "i", "o", "l", "o", "g", "i", "c", ":", "/", "/",
                   "p", "e", "r", "s", "o", "n", "a", "s", "/",
                   "m", "a", "r", "k", "e", "t", "p", "l", "a", "c", "e">>),
          \* sociologic://campaigns/templates
          Resource(<<"s", "o", "c", "i", "o", "l", "o", "g", "i", "c", ":", "/", "/",
                   "c", "a", "m", "p", "a", "i", "g", "n", "s", "/",
                   "t", "e", "m", "p", "l", "a", "t", "e", "s">>),
          \* sociologic://account/credits
          Resource(<<"s", "o", "c", "i", "o", "l", "o", "g", "i", "c", ":", "/", "/",
                   "a", "c", "c", "o", "u", "n", "t", "/", "c", "r", "e", "d", "i", "t", "s">>)>>,
        NoValue))

\* the methods handleRequest's switch has a case for
DispatchedMethods(dep) ==
    {"initialize", "tools/list", "tools/call", "ping"}
    \cup (IF dep = "current" THEN {"prompts/list", "resources/list"} ELSE {})

\* handleRequest(request): `return this.handleToolsCall(...)` is not
\* awaited, so its rejection is not caught here
handleRequest(dep, client, mcpRequest) ==
    LET id     == mcpRequest.id
        method == IF mcpRequest.method.v \in DispatchedMethods(dep)
                  THEN mcpRequest.method.v ELSE ""
    IN  CASE method = "initialize" -> handleInitialize(client)
          [] method = "tools/list" -> Resolve(handleToolsList(dep, id))
          [] method = "tools/call" -> handleToolsCall(dep, client, id, mcpRequest.params)
          [] method = "prompts/list" -> Resolve(handlePromptsList(id))
          [] method = "resources/list" -> Resolve(handleResourcesList(id))
          [] method = "ping" -> Resolve(RpcResult(id, Result("pong", <<>>, NoValue)))
          [] OTHER ->
                Resolve(RpcError(id, METHOD_NOT_FOUND,
                                 Msg("Method not found: ", <<mcpRequest.method.v>>), Absent))

\* handleRequest resumed with the value of the call it suspended on
resume(mcpRequest, value) ==
    IF mcpRequest.method.v = "initialize" THEN initializeResult(mcpRequest.id, value)
    ELSE toolsCallResult(mcpRequest.id, value)

(***************************************************************************)
(* index.ts: the Workers fetch handler                                     *)
(***************************************************************************)

\* a Response built without the Access-Control-Allow-Origin header
ResponseWithoutCors(status, responseBody) ==
    [status |-> status, cors |-> FALSE, body |-> responseBody]

\* new Response(JSON.stringify(responseBody), {status, headers}): each of
\* the sixteen constructions in fetch() has "Access-Control-Allow-Origin": "*"
\* among its headers (cors)
Response(status, responseBody) == [status |-> status, cors |-> TRUE, body |-> responseBody]

NoResponse == [status |-> 0, cors |-> FALSE, body |-> NoBody]

Bearer == <<"B", "e", "a", "r", "e", "r", " ">>

\* extractApiKey that falls back on the api_key parameter of the query string
extractApiKeyOrQuery(h) ==
    IF h.xApiKey.present /\ h.xApiKey.s # <<>> THEN Hdr(trim(h.xApiKey.s))
    ELSE IF h.authorization.present
    THEN Hdr(trim(replace(h.authorization.s, Bearer, <<>>)))
    ELSE IF h.search.present THEN Hdr(trim(h.search.s))
    ELSE NoHeader

\* extractApiKey without the final .trim()
extractApiKeyUntrimmed(h) ==
    IF h.xApiKey.present /\ h.xApiKey.s # <<>> THEN h.xApiKey
    ELSE IF h.authorization.present THEN Hdr(replace(h.authorization.s, Bearer, <<>>))
    ELSE NoHeader

\* (X-API-Key || Authorization?.replace("Bearer ", ""))?.trim(): an empty
\* X-API-Key falls through to Authorization, a blank one does not
extractApiKey(h) ==
    LET chosen == IF h.xApiKey.present /\ h.xApiKey.s # <<>> THEN h.xApiKey
                  ELSE IF h.authorization.present
                       THEN Hdr(replace(h.authorization.s, Bearer, <<>>))
                       ELSE NoHeader
    IN  IF chosen.present THEN Hdr(trim(chosen.s)) ELSE NoHeader

\* contentLength && parseInt(contentLength, 10) > MAX_REQUEST_SIZE
declaredTooLarge(h) ==
    /\ h.contentLength.present
    /\ h.contentLength.s # <<>>
    /\ ~parseInt(h.contentLength.s).nan
    /\ parseInt(h.contentLength.s).n > MAX_REQUEST_SIZE

RpcPaths == {"/", "/mcp", "/rpc"}

ServerCardPath == "/.well-known/mcp/server-card.json"

TooLarge ==
    Response(413, RpcError(JNull, INVALID_REQUEST,
                           Msg("Request body too large. Maximum size is ",
                               <<"1048576", " bytes.">>), Absent))

\* What fetch() does with the request line and headers, before it reads
\* the body: answer, or go on to `await request.text()` with the client built
Answer(response, client) == [o |-> "answer", response |-> response, client |-> client]

ReadBody(client) == [o |-> "read", response |-> NoResponse, client |-> client]

\* noApiKey as `apiKey === undefined`: an empty key counts as a key
noApiKeyUndefinedOnly(apiKey) == ~apiKey.present

\* `if (!apiKey)`: null, undefined and the empty string are all falsy
noApiKey(apiKey) == ~apiKey.present \/ apiKey.s = <<>>

\* a router that knows the key check only and reads the body on every path
routeEverythingToRpc(h, apiKey, client) ==
    IF noApiKey(apiKey)
    THEN Answer(Response(401, HttpError("AUTHENTICATION_REQUIRED",
                              Msg("API key required.", <<>>))), NoClient)
    ELSE ReadBody(client)

route(h, apiKey, client) ==
    IF h.method = "OPTIONS" THEN Answer(Response(204, NoBody), NoClient)
    ELSE IF h.path = ServerCardPath
    THEN Answer(Response(200, ResponseBody("", Absent, "card", 0, "", NoMsg,
                                           NoResult, Absent)), NoClient)
    ELSE IF declaredTooLarge(h) THEN Answer(TooLarge, NoClient)
    ELSE IF noApiKey(apiKey)
    THEN Answer(Response(401, HttpError("AUTHENTICATION_REQUIRED",
                              Msg("API key required.", <<>>))), NoClient)
    ELSE IF h.path \in {"/sse", "/mcp/sse"}
    THEN Answer(Response(501, HttpError("NOT_IMPLEMENTED",
                              Msg("SSE transport is not available.", <<>>))), client)
    ELSE IF h.path \in RpcPaths
    THEN IF h.method # "POST"
         THEN Answer(Response(405, ResponseBody("2.0", Absent, "error", INVALID_REQUEST,
                                   "", Msg("POST method required for JSON-RPC", <<>>),
                                   NoResult, Absent)), client)
         ELSE ReadBody(client)
    ELSE IF h.path = "/health"
    THEN Answer(Response(200, ResponseBody("", Absent, "health", 0, "", NoMsg,
                                           NoResult, Absent)), client)
    ELSE IF h.path = "/info"
    THEN Answer(Response(200, ResponseBody("", Absent, "info", 0, "", NoMsg,
                                           NoResult, Absent)), client)
    ELSE Answer(Response(404, HttpError("NOT_FOUND",
                              Msg("Unknown endpoint: ", <<h.path>>))), client)

fetchHead(h) == route(h, extractApiKey(h), SocioLogicClient(extractApiKey(h).s))

\* the MCPRequest JSON.parse makes of an object body
MCPRequest(json) ==
    [jsonrpc |-> JSONparse(json.jsonrpc), method |-> JSONparse(json.method),
     id |-> JSONparse(json.id), params |-> json.params]

NoParams == [t |-> "absent", name |-> Absent, args |-> ArgsAbsent]

NoRequest == [jsonrpc |-> Absent, method |-> Absent, id |-> Absent, params |-> NoParams]

\* JSON.stringify(response): the id member as it is written
serialize(responseBody) == [responseBody EXCEPT !.id = JSONstringify(@)]

Invalid(status, id, code, text) ==
    Response(status, serialize(RpcError(id, code, Msg(text, <<>>), Absent)))

\* the outer catch of the RPC route
ProcessingFailed == Invalid(500, JNull, INTERNAL_ERROR, "Failed to process request")

\* What fetch() does once request.text() has delivered the body: the size
\* check on bodyText.length, JSON.parse, the envelope checks, then
\* handler.handleRequest.  Yields the response, or the call to wait for
Done(response, mcpRequest) ==
    [o |-> "done", response |-> response, mcpRequest |-> mcpRequest, call |-> NoCall]

Pending(call, mcpRequest) ==
    [o |-> "pending", response |-> NoResponse, mcpRequest |-> mcpRequest, call |-> call]

\* `await handler.handleRequest(mcpRequest)` and the outer catch
afterHandleRequest(mcpRequest, step) ==
    CASE step.o = "resolve" -> Done(Response(200, serialize(step.response)), mcpRequest)
      [] step.o = "reject" -> Done(ProcessingFailed, mcpRequest)
      [] step.o = "suspend" -> Pending(step.call, mcpRequest)

\* checkEnvelope without the check of the id's type
checkEnvelopeAnyId(dep, client, mcpRequest) ==
    IF mcpRequest.jsonrpc # J("string", "2.0") \/ mcpRequest.method.t # "string"
    THEN Done(Invalid(400, OrNull(mcpRequest.id), INVALID_REQUEST,
                      "Invalid JSON-RPC 2.0 request: requires jsonrpc='2.0' and method string"),
              NoRequest)
    ELSE afterHandleRequest(mcpRequest, handleRequest(dep, client, mcpRequest))

\* the envelope checks on the parsed object, then the dispatch
checkEnvelope(dep, client, mcpRequest) ==
    IF mcpRequest.jsonrpc # J("string", "2.0") \/ mcpRequest.method.t # "string"
    THEN Done(Invalid(400, OrNull(mcpRequest.id), INVALID_REQUEST,
                      "Invalid JSON-RPC 2.0 request: requires jsonrpc='2.0' and method string"),
              NoRequest)
    ELSE IF mcpRequest.id.t \notin {"absent", "null", "string", "number"}
    THEN Done(Invalid(400, JNull, INVALID_REQUEST,
                      "Invalid JSON-RPC request: id must be string, number, or null"),
              NoRequest)
    ELSE afterHandleRequest(mcpRequest, handleRequest(dep, client, mcpRequest))

\* fetchBody that parses the body before it looks at its length
fetchBodyParseFirst(dep, client, b) ==
    IF b.json.t = "unparsable"
    THEN Done(Invalid(400, JNull, PARSE_ERROR, "Failed to parse JSON body"), NoRequest)
    ELSE IF b.chars > MAX_REQUEST_SIZE THEN Done(TooLarge, NoRequest)
    ELSE IF b.json.t # "object"
    THEN Done(Invalid(400, JNull, INVALID_REQUEST, "Request body must be a JSON object"),
              NoRequest)
    ELSE checkEnvelope(dep, client, MCPRequest(b.json))

fetchBody(dep, client, b) ==
    IF b.chars > MAX_REQUEST_SIZE THEN Done(TooLarge, NoRequest)
    ELSE IF b.json.t = "unparsable"
    THEN Done(Invalid(400, JNull, PARSE_ERROR, "Failed to parse JSON body"), NoRequest)
    ELSE IF b.json.t # "object"
    THEN Done(Invalid(400, JNull, INVALID_REQUEST, "Request body must be a JSON object"),
              NoRequest)
    ELSE checkEnvelope(dep, client, MCPRequest(b.json))

(***************************************************************************)
(* api-client.ts: how an outbound call ends                                *)
(***************************************************************************)

\* what the backend may send as the body of its response: a JSON object
\* with an error member, one without, the JSON null, text that is not
\* JSON, or a stream that breaks
BodyKinds == {"error", "data", "null", "text", "broken"}

TimeoutMessage(timeoutMs) ==
    CASE timeoutMs = 30000 -> "Request timed out after 30000ms"
      [] timeoutMs = 60000 -> "Request timed out after 60000ms"
      [] timeoutMs = 90000 -> "Request timed out after 90000ms"
      [] OTHER -> "Request timed out"

NetworkErrorResponse == ErrorResponse("NETWORK_ERROR", "Network request failed")

\* request(): `await response.json()` settles.  For a 2xx the parsed body is
\* returned as it is and a failure goes to the outer catch; for a non-2xx
\* the inner try reads the error body and the inner catch ignores a failure
requestOnBody(status, kind) ==
    IF ok(status)
    THEN IF kind \in {"error", "data", "null"}
         THEN ApiResponse("json", kind, IF kind = "error" THEN "backend message" ELSE "")
         ELSE NetworkErrorResponse
    ELSE IF kind = "error" THEN ErrorResponse("BACKEND_CODE", "backend message")
         ELSE ErrorResponse(HttpCode(status), "HTTP status")

\* request(): controller.abort() runs while the call awaits.  The fetch or
\* the 2xx body read rejects with AbortError, which the outer catch turns
\* into TIMEOUT; the error body read of a non-2xx rejects inside the inner
\* try, whose catch ignores it
requestOnAbort(phase, status, timeoutMs) ==
    IF phase = "json" /\ ~ok(status)
    THEN ErrorResponse(HttpCode(status), "HTTP status")
    ELSE ErrorResponse("TIMEOUT", TimeoutMessage(timeoutMs))

\* getX402Discovery(): a non-2xx is answered from the status alone
x402OnStatus(status) ==
    IF status = 404
    THEN ErrorResponse("X402_NOT_ENABLED", "x402 payments are not enabled for this platform")
    ELSE ErrorResponse(HttpCode(status), "Failed to fetch x402 discovery")

\* getX402Discovery(): the manifest is wrapped as { data: manifest }
x402OnBody(kind) ==
    IF kind \in {"error", "data", "null"} THEN JsonResponse("data")
    ELSE NetworkErrorResponse

(***************************************************************************)
(* The requests and bodies explored                                        *)
(***************************************************************************)

\* how many optional keys an arguments object supplies at most
MaxOptionalSupplied == 1

HttpMethods == {"OPTIONS", "GET", "POST", "PUT"}

Paths == RpcPaths \cup {"/health", "/info", "/sse", "/mcp/sse", ServerCardPath, "/unknown"}

ContentLengths ==
    {NoHeader, Hdr(<<"6", "4">>), Hdr(<<"1", "0", "4", "8", "5", "7", "6">>),
     Hdr(<<"1", "0", "4", "8", "5", "7", "7">>), Hdr(<<"a", "b", "c">>)}

XApiKeys == {NoHeader, Hdr(<<>>), Hdr(<<" ", " ">>), Hdr(<<" ", "k", "1", " ">>),
             Hdr(<<"k", "1">>)}

Authorizations == {NoHeader, Hdr(Bearer), Hdr(Bearer \o <<"k", "2">>), Hdr(<<"k", "3">>)}

\* new URL(request.url) splits the URL into url.pathname (path) and
\* url.search, of which the value of an api_key parameter is kept (search):
\* no query string, or ?api_key=k1
Searches == {NoHeader, Hdr(<<"k", "1">>)}

HttpRequests ==
    [method : HttpMethods, path : Paths, contentLength : ContentLengths,
     xApiKey : XApiKeys, authorization : Authorizations, search : Searches]

Ids ==
    {Absent, JNull, J("string", "a"), J("string", "1"), J("number", "1"),
     J("number", "9007199254740993"), J("number", "1e999"), J("boolean", "true"),
     J("object", "{}")}

JsonRpcs == {Absent, J("string", "2.0"), J("string", "1.0"), J("number", "2.0")}

Methods ==
    {Absent, J("number", "1")}
    \cup {J("string", m) : m \in {"initialize", "tools/list", "tools/call", "prompts/list",
                                  "resources/list", "ping", "unknown/method"}}

Params(t, name, args) == [t |-> t, name |-> name, args |-> args]

AllToolNames == SeqToSet(ToolNames(TOOL_DEFINITIONS_CURRENT))

\* the keys any schema of the tool knows
KnownKeys(name) == SeqToSet(DeclaredSchema("current", name).fields)

RequiredKeys(name) == DeclaredSchema("current", name).required

\* the keys whose valid values the code tells apart
ThreeValued == {"format", "x402_payment"}

ValueClasses(key) ==
    IF key = "format" THEN {"pdf", "json", "invalid"}
    ELSE IF key = "x402_payment" THEN {"ok", "full", "invalid"}
    ELSE {"ok", "invalid"}

\* every assignment of a value class to each of the keys
Assignments(ks) ==
    {plain @@ special :
        plain \in [ks \ ThreeValued -> {"ok", "invalid"}],
        special \in {f \in [ks \cap ThreeValued -> {"ok", "full", "pdf", "json", "invalid"}] :
                        \A k \in DOMAIN f : f[k] \in ValueClasses(k)}}

\* the arguments objects explored for a tool: any choice over its required
\* keys (left out, valid, invalid) with at most MaxOptionalSupplied optional keys
ArgObjects(name) ==
    LET optional == KnownKeys(name) \ RequiredKeys(name)
        keysets  == {req \cup opt :
                        req \in SUBSET RequiredKeys(name),
                        opt \in {o \in SUBSET optional :
                                    Cardinality(o) <= MaxOptionalSupplied}}
    IN  UNION {{Args("object", f) : f \in Assignments(ks)} : ks \in keysets}

ToolArgs(name) ==
    ArgObjects(name)
    \cup {ArgsAbsent, Args("null", NoFields), Args("string", NoFields)}

\* tools/call params: every declared tool with the arguments above, and the
\* params shapes that name no declared tool
ToolParams ==
    UNION {{Params("object", J("string", name), a) : a \in ToolArgs(name)}
           : name \in AllToolNames}

OddParams ==
    {NoParams, Params("null", Absent, ArgsAbsent), Params("string", Absent, ArgsAbsent),
     Params("array", Absent, ArgsAbsent),
     Params("object", Absent, ArgsAbsent),
     Params("object", J("number", "5"), Args("object", NoFields)),
     Params("object", J("string", "unknown_tool"), Args("object", NoFields)),
     Params("object", J("string", "sociologic_get_persona"),
            Args("object", [k \in {"slug"} |-> "ok"]))}

Json(t, jsonrpc, method, id, params) ==
    [t |-> t, jsonrpc |-> jsonrpc, method |-> method, id |-> id, params |-> params]

Body(chars, bytes, json) == [chars |-> chars, bytes |-> bytes, json |-> json]

Call(method, id, params) == Json("object", J("string", "2.0"), J("string", method), id, params)

\* bodies that are not an object, and the size of a small body
SmallSize == 64

NonObjects == {Json(t, Absent, Absent, Absent, NoParams) :
                  t \in {"unparsable", "null", "array", "number"}}

\* every envelope over the ids, versions, methods and odd params
EnvelopeBodies ==
    {Body(SmallSize, SmallSize, Json("object", v, m, i, p)) :
        v \in JsonRpcs, m \in Methods, i \in Ids, p \in OddParams}
    \cup {Body(SmallSize, SmallSize, j) : j \in NonObjects}

\* every declared tool with every arguments value, under two ids
ToolBodies ==
    {Body(SmallSize, SmallSize, Call("tools/call", i, p)) :
        i \in {J("number", "1"), J("string", "a")}, p \in ToolParams}

\* bodies at and around the ceiling: all ASCII (bytes = chars) or with one
\* two-byte character (bytes = chars + 1)
SizedBodies ==
    {Body(c, c + extra, Call("ping", J("number", "1"), NoParams)) :
        c \in {MAX_REQUEST_SIZE - 1, MAX_REQUEST_SIZE, MAX_REQUEST_SIZE + 1},
        extra \in {0, 1}}

\* bodies above the ceiling that would fail a later check as well: text
\* that is not JSON, an array, and an envelope of version "1.0" with id true
OversizedBadBodies ==
    {Body(MAX_REQUEST_SIZE + 1, MAX_REQUEST_SIZE + 1, j) :
        j \in {Json("unparsable", Absent, Absent, Absent, NoParams),
               Json("array", Absent, Absent, Absent, NoParams),
               Json("object", J("string", "1.0"), J("string", "ping"),
                    J("boolean", "true"), NoParams)}}

\* a few bodies of each kind
SampleBodies ==
    SizedBodies
    \cup OversizedBadBodies
    \cup {Body(SmallSize, SmallSize, j) : j \in NonObjects}
    \cup {Body(SmallSize, SmallSize, Call(m, J("string", "a"), p)) :
            m \in {"initialize", "ping"}, p \in {NoParams}}
    \cup {Body(SmallSize, SmallSize, Call("tools/call", J("number", "1"), p)) : p \in OddParams}
    \cup {Body(SmallSize, SmallSize,
               Call("tools/call", J("number", "1"),
                    Params("object", J("string", n), Args("object", NoFields)))) :
            n \in {"sociologic_get_credits_balance", "sociologic_get_x402_discovery"}}

\* the request whose body is explored in full: POST / with X-API-Key: k1
\* and no Content-Length
Canonical(h) ==
    /\ h.path = "/"
    /\ h.contentLength = NoHeader
    /\ h.xApiKey = Hdr(<<"k", "1">>)
    /\ h.authorization = NoHeader
    /\ h.search = NoHeader

\* the bodies explored for a request: all of them for the canonical
\* request, the samples for every other combination of headers
BodiesFor(h) ==
    IF Canonical(h) THEN EnvelopeBodies \cup ToolBodies \cup SampleBodies
    ELSE SampleBodies

\* the requests explored when several are in flight at once: two callers
\* with keys of their own, one in X-API-Key and one in Authorization
ConcurrentRequests ==
    {[method |-> "POST", path |-> "/", contentLength |-> NoHeader,
      xApiKey |-> Hdr(<<"k", "1">>), authorization |-> NoHeader,
      search |-> NoHeader],
     [method |-> "POST", path |-> "/mcp", contentLength |-> NoHeader,
      xApiKey |-> NoHeader, authorization |-> Hdr(Bearer \o <<"k", "2">>),
      search |-> NoHeader]}

\* ... and their bodies: calls that reach the backend under two ids, and
\* calls answered by the gateway itself
ConcurrentBodies ==
    {Body(SmallSize, SmallSize, Call("initialize", i, NoParams)) :
        i \in {J("string", "a"), J("number", "1")}}
    \cup {Body(SmallSize, SmallSize,
               Call("tools/call", J("number", "1"),
                    Params("object", J("string", "sociologic_get_persona"),
                           Args("object", [k \in {"slug"} |-> v])))) :
            v \in {"ok", "invalid"}}
    \cup {Body(SmallSize, SmallSize,
               Call("tools/call", J("string", "a"),
                    Params("object", J("string", n), Args("object", NoFields)))) :
            n \in {"sociologic_get_credits_balance", "sociologic_get_x402_discovery"}}
    \cup {Body(SmallSize, SmallSize, Call("tools/list", J("string", "1"), NoParams)),
          Body(SmallSize, SmallSize, Json("unparsable", Absent, Absent, Absent, NoParams))}

(***************************************************************************)
(* The state machine                                                       *)
(***************************************************************************)

Deployments == {"legacy", "current"}

NoHttp ==
    [method |-> "", path |-> "", contentLength |-> NoHeader, xApiKey |-> NoHeader,
     authorization |-> NoHeader, search |-> NoHeader]

NoBodyRead == Body(0, 0, Json("", Absent, Absent, Absent, NoParams))

Net(phase, status, value) == [phase |-> phase, status |-> status, value |-> value]

Idle == Net("none", 0, NoValue)

InitSlots(S) ==
    /\ slots = S
    /\ pc = [r \in S |-> "idle"]
    /\ http = [r \in S |-> NoHttp]
    /\ body = [r \in S |-> NoBodyRead]
    /\ handler = [r \in S |-> NoClient]
    /\ rpc = [r \in S |-> NoRequest]
    /\ calls = [r \in S |-> <<>>]
    /\ net = [r \in S |-> Idle]
    /\ timer = [r \in S |-> "none"]
    /\ resp = [r \in S |-> NoResponse]

\* the requests in flight at once
RequestIds == {1}

Init == deployment \in Deployments /\ InitSlots(RequestIds)

\* two requests in flight at once: the runtime runs one fetch() per request
\* and interleaves them at their awaits
ConcurrentIds == {1, 2}

ConcurrentInit == deployment \in Deployments /\ InitSlots(ConcurrentIds)

\* the requests and the bodies a run explores
Requests == IF slots = RequestIds THEN HttpRequests ELSE ConcurrentRequests

Bodies(h) == IF slots = RequestIds THEN BodiesFor(h) ELSE ConcurrentBodies

\* fetch(request, env) up to its first await: the preflight, the server
\* card, the declared length, the API key, the handler and the route
fetch(r) ==
    /\ pc[r] = "idle"
    /\ \E h \in Requests :
          \E head \in {fetchHead(h)} :
              /\ http' = [http EXCEPT ![r] = h]
              /\ handler' = [handler EXCEPT ![r] = head.client]
              /\ resp' = [resp EXCEPT ![r] = head.response]
              /\ pc' = [pc EXCEPT ![r] = IF head.o = "answer" THEN "done" ELSE "readBody"]
    /\ UNCHANGED <<deployment, slots, body, rpc, calls, net, timer>>

\* `await request.text()` delivers the body: the checks on it and the
\* dispatch, up to the response or the outbound fetch
readBody(r) ==
    /\ pc[r] = "readBody"
    /\ \E b \in Bodies(http[r]) :
          \E step \in {fetchBody(deployment, handler[r], b)} :
              /\ body' = [body EXCEPT ![r] = b]
              /\ rpc' = [rpc EXCEPT ![r] = step.mcpRequest]
              /\ resp' = [resp EXCEPT ![r] = step.response]
              /\ IF step.o = "done"
                 THEN /\ pc' = [pc EXCEPT ![r] = "done"]
                      /\ UNCHANGED <<calls, net, timer>>
                 ELSE /\ pc' = [pc EXCEPT ![r] = "awaitFetch"]
                      /\ calls' = [calls EXCEPT ![r] = Append(@, step.call)]
                      /\ net' = [net EXCEPT ![r] = Net("fetch", 0, NoValue)]
                      /\ timer' = [timer EXCEPT ![r] =
                                      IF step.call.timeoutMs > 0 THEN "armed" ELSE "none"]
    /\ UNCHANGED <<deployment, slots, http, handler>>

\* `await request.text()` rejects (the client went away): the outer catch
readBodyFails(r) ==
    /\ pc[r] = "readBody"
    /\ resp' = [resp EXCEPT ![r] = ProcessingFailed]
    /\ pc' = [pc EXCEPT ![r] = "done"]
    /\ UNCHANGED <<deployment, slots, http, body, handler, rpc, calls, net, timer>>

\* a return of the client method whose finally clause leaves the timer armed
ReturnWithoutClearTimeout(r, value) ==
    /\ net' = [net EXCEPT ![r] = Net("returned", @.status, value)]
    /\ timer' = timer
    /\ resp' = [resp EXCEPT ![r] = Response(200, serialize(resume(rpc[r], value)))]
    /\ pc' = [pc EXCEPT ![r] = "done"]

\* The client method returns `value`: the finally clause clears the timer,
\* handleRequest resumes and fetch() returns the serialized response
Return(r, value) ==
    /\ net' = [net EXCEPT ![r] = Net("returned", @.status, value)]
    /\ timer' = [timer EXCEPT ![r] = IF @ = "armed" THEN "cleared" ELSE @]
    /\ resp' = [resp EXCEPT ![r] = Response(200, serialize(resume(rpc[r], value)))]
    /\ pc' = [pc EXCEPT ![r] = "done"]

InFlight(r) == calls[r][Len(calls[r])]

\* the backend's status line and headers arrive
backendHeaders(r) ==
    /\ pc[r] = "awaitFetch"
    /\ \E status \in HttpStatuses :
          IF InFlight(r).fn = "getX402Discovery" /\ ~ok(status)
          THEN Return(r, x402OnStatus(status))
          ELSE /\ net' = [net EXCEPT ![r] = Net("json", status, NoValue)]
               /\ pc' = [pc EXCEPT ![r] = "awaitJson"]
               /\ UNCHANGED <<timer, resp>>
    /\ UNCHANGED <<deployment, slots, http, body, handler, rpc, calls>>

\* the backend's body arrives, or its stream breaks
backendBody(r) ==
    /\ pc[r] = "awaitJson"
    /\ \E kind \in BodyKinds :
          Return(r, IF InFlight(r).fn = "getX402Discovery" THEN x402OnBody(kind)
                    ELSE requestOnBody(net[r].status, kind))
    /\ UNCHANGED <<deployment, slots, http, body, handler, rpc, calls>>

\* the outbound fetch() rejects: DNS, connection refused, reset
networkError(r) ==
    /\ pc[r] = "awaitFetch"
    /\ Return(r, NetworkErrorResponse)
    /\ UNCHANGED <<deployment, slots, http, body, handler, rpc, calls>>

\* the setTimeout callback of request() runs: controller.abort()
timeout(r) ==
    /\ pc[r] \in {"awaitFetch", "awaitJson"}
    /\ timer[r] = "armed"
    /\ \E value \in {requestOnAbort(net[r].phase, net[r].status, InFlight(r).timeoutMs)} :
          /\ net' = [net EXCEPT ![r] = Net("returned", @.status, value)]
          /\ resp' = [resp EXCEPT ![r] = Response(200, serialize(resume(rpc[r], value)))]
    /\ timer' = [timer EXCEPT ![r] = "fired"]
    /\ pc' = [pc EXCEPT ![r] = "done"]
    /\ UNCHANGED <<deployment, slots, http, body, handler, rpc, calls>>

\* the Response is handed to the runtime; nothing of the request remains
deliver(r) ==
    /\ pc[r] = "done"
    /\ pc' = [pc EXCEPT ![r] = "idle"]
    /\ http' = [http EXCEPT ![r] = NoHttp]
    /\ body' = [body EXCEPT ![r] = NoBodyRead]
    /\ handler' = [handler EXCEPT ![r] = NoClient]
    /\ rpc' = [rpc EXCEPT ![r] = NoRequest]
    /\ calls' = [calls EXCEPT ![r] = <<>>]
    /\ net' = [net EXCEPT ![r] = Idle]
    /\ timer' = [timer EXCEPT ![r] = "none"]
    /\ resp' = [resp EXCEPT ![r] = NoResponse]
    /\ UNCHANGED <<deployment, slots>>

Next ==
    \/ \E r \in slots : fetch(r)
    \/ \E r \in slots : readBody(r)
    \/ \E r \in slots : readBodyFails(r)
    \/ \E r \in slots : backendHeaders(r)
    \/ \E r \in slots : backendBody(r)
    \/ \E r \in slots : networkError(r)
    \/ \E r \in slots : timeout(r)
    \/ \E r \in slots : deliver(r)

Spec == Init /\ [][Next]_vars

\* The timer callback is a macrotask the runtime runs once it is due; the
\* backend and the network are under no obligation to answer
LiveSpec == Spec /\ WF_vars(\E r \in slots : timeout(r))

ConcurrentSpec == ConcurrentInit /\ [][Next]_vars

(***************************************************************************)
(* Vocabulary of the properties                                            *)
(***************************************************************************)

Blank(s) == \A i \in 1..Len(s) : IsSpace(s[i])

AfterBearer(s) == IF IsPrefix(Bearer, s) THEN SubSeq(s, Len(Bearer) + 1, Len(s)) ELSE s

\* neither header carries a key that is not blank
Keyless(h) ==
    /\ ~h.xApiKey.present \/ Blank(h.xApiKey.s)
    /\ ~h.authorization.present \/ Blank(AfterBearer(h.authorization.s))

\* a key in X-API-Key, or in Authorization when X-API-Key is not sent
ValidKey(h) ==
    \/ h.xApiKey.present /\ ~Blank(h.xApiKey.s)
    \/ /\ ~h.xApiKey.present \/ h.xApiKey.s = <<>>
       /\ h.authorization.present
       /\ ~Blank(AfterBearer(h.authorization.s))

RpcPost(h) == h.method = "POST" /\ h.path \in RpcPaths

\* fetch() has returned its Response for the request in slot r
Answered(r) == pc[r] = "done"

\* the request in slot r is an authenticated POST to an RPC path whose
\* body was read
BodyRead(r) ==
    /\ Answered(r)
    /\ RpcPost(http[r])
    /\ ValidKey(http[r])
    /\ body[r] # NoBodyRead

\* ... and the body is a well-formed JSON-RPC envelope within the ceiling
WellFormedEnvelope(r) ==
    /\ BodyRead(r)
    /\ body[r].bytes <= MAX_REQUEST_SIZE
    /\ body[r].json.t = "object"
    /\ body[r].json.jsonrpc = J("string", "2.0")
    /\ body[r].json.method.t = "string"
    /\ body[r].json.id.t \in {"string", "number"}

\* the request in slot r was dispatched as a tools/call that names a tool
\* its deployment declares
DeclaredToolCall(r) ==
    /\ rpc[r].method = J("string", "tools/call")
    /\ rpc[r].params.t = "object"
    /\ rpc[r].params.name.t = "string"
    /\ rpc[r].params.name.v \in DeclaredNames(deployment)

ToolName(r) == rpc[r].params.name.v

ToolArguments(r) == rpc[r].params.args

\* the arguments pass the validation executeTool applies to the tool
PassesValidation(dep, n, args) ==
    n \in UnvalidatedCases \/ safeParse(CaseSchema(dep, n), args).success

ValidatedToolCall(r) ==
    /\ DeclaredToolCall(r)
    /\ PassesValidation(deployment, ToolName(r), ToolArguments(r))

\* the export that returns a URL: format pdf, given or by default
PdfExport(r) ==
    /\ ToolName(r) = "sociologic_export_campaign"
    /\ safeParse(ExportCampaignSchema, ToolArguments(r)).data["format"] = "pdf"

\* the request line of the endpoint behind a tool
EndpointOf(n) ==
    IF n = "sociologic_get_x402_discovery" THEN <<"GET", "/.well-known/x402.json">>
    ELSE <<ClientMethod(CaseMethod(n))[1], ClientMethod(CaseMethod(n))[2]>>

\* the outbound call of slot r ended in a failure the client reports
BackendFailed(r) ==
    /\ Answered(r)
    /\ DeclaredToolCall(r)
    /\ calls[r] # <<>>
    /\ net[r].value.kind = "error"

(***************************************************************************)
(* C1                                                                      *)
(***************************************************************************)

\* C1: for every authenticated POST to an RPC path with a well-formed
\* envelope (jsonrpc "2.0", string method, id a string or a number) the id
\* of the response body equals the id of the request, for every method and
\* for tools/call with any params.  The code does not satisfy this.
C1_IdEchoed ==
    \A r \in slots : WellFormedEnvelope(r) => resp[r].body.id = body[r].json.id

\* what the code does satisfy: whenever handleRequest resolves, the id is
\* the one JSON.parse read, written back by JSON.stringify
C1_IdOfResolvedRequest ==
    \A r \in slots :
        WellFormedEnvelope(r) /\ resp[r].status = 200
            => resp[r].body.id = JSONstringify(JSONparse(body[r].json.id))

(***************************************************************************)
(* C2                                                                      *)
(***************************************************************************)

\* C2: a request with no key, or only a blank one, in X-API-Key and in
\* Authorization makes no outbound call on any path, method or body, and a
\* 401 is produced with no handler and no backend client constructed.
C2_KeylessMakesNoBackendCall ==
    \A r \in slots :
        /\ http[r] # NoHttp /\ Keyless(http[r])
              => /\ calls[r] = <<>>
                 /\ ~handler[r].constructed
                 /\ pc[r] \notin {"readBody", "awaitFetch", "awaitJson"}
        /\ resp[r].status = 401
              => /\ calls[r] = <<>>
                 /\ ~handler[r].constructed
                 /\ resp[r].body.ecode = "AUTHENTICATION_REQUIRED"

\* a tools/call POSTed with a whitespace-only X-API-Key has been answered 401
C2_Witness ==
    \E r \in slots :
        /\ Answered(r)
        /\ RpcPost(http[r])
        /\ http[r].xApiKey = Hdr(<<" ", " ">>)
        /\ ~http[r].authorization.present
        /\ resp[r].status = 401

(***************************************************************************)
(* C3                                                                      *)
(***************************************************************************)

\* C3 as stated: every request without a key is answered 401 unless its
\* path is the discovery document, whatever its method and declared
\* Content-Length, and the discovery document is answered 200.
C3_AsStated ==
    \A r \in slots :
        Answered(r) /\ Keyless(http[r])
            => IF http[r].path = ServerCardPath THEN resp[r].status = 200
               ELSE resp[r].status = 401

\* C3: a request without a key that is not an OPTIONS preflight and does
\* not declare a Content-Length above the ceiling is answered 401 on every
\* path but the discovery document, which is answered 200 with or without
\* a key; an OPTIONS request is answered 204 on every path, and a declared
\* Content-Length above the ceiling is answered 413 before the key is
\* looked at.
C3_KeyRequiredAfterPreflightAndCeiling ==
    \A r \in slots :
        Answered(r) =>
            /\ http[r].method = "OPTIONS" => resp[r].status = 204
            /\ http[r].method # "OPTIONS" /\ http[r].path = ServerCardPath
                  => resp[r].status = 200 /\ resp[r].body.kind = "card"
            /\ (/\ http[r].method # "OPTIONS"
                /\ http[r].path # ServerCardPath
                /\ declaredTooLarge(http[r]))
                  => resp[r].status = 413
            /\ (/\ http[r].method # "OPTIONS"
                /\ http[r].path # ServerCardPath
                /\ ~declaredTooLarge(http[r])
                /\ Keyless(http[r]))
                  => resp[r].status = 401

\* GET /health without any key has been answered 401
C3_Witness ==
    \E r \in slots :
        /\ Answered(r)
        /\ http[r].method = "GET"
        /\ http[r].path = "/health"
        /\ ~http[r].xApiKey.present
        /\ ~http[r].authorization.present
        /\ resp[r].status = 401

(***************************************************************************)
(* C4                                                                      *)
(***************************************************************************)

\* C4: for an authenticated POST to an RPC path, a body of at most
\* MAX_REQUEST_SIZE bytes is never rejected as oversized and a body of more
\* is rejected with 413 and the INVALID_REQUEST error, whether the excess
\* is declared in Content-Length or found by reading the body.  The code
\* does not satisfy this.
C4_CeilingInBytes ==
    \A r \in slots :
        /\ Answered(r) /\ RpcPost(http[r]) /\ ValidKey(http[r]) /\ declaredTooLarge(http[r])
              => resp[r] = TooLarge
        /\ BodyRead(r) /\ body[r].bytes > MAX_REQUEST_SIZE => resp[r] = TooLarge
        /\ BodyRead(r) /\ body[r].bytes <= MAX_REQUEST_SIZE => resp[r].status # 413

\* what the code does satisfy: the ceiling on the body read is in UTF-16
\* code units
C4_CeilingInCodeUnits ==
    \A r \in slots :
        BodyRead(r) => (body[r].chars > MAX_REQUEST_SIZE <=> resp[r] = TooLarge)

(***************************************************************************)
(* C5                                                                      *)
(***************************************************************************)

\* C5: for every declared tool, a tools/call whose arguments object lacks a
\* required field is answered with the JSON-RPC error "Invalid parameters:"
\* whose message lists every lacking field, and a tools/call that supplies
\* exactly the required fields, each valid, is not rejected by validation
\* and is answered with a result.
C5_RequiredFields ==
    \A r \in slots :
        Answered(r) /\ DeclaredToolCall(r) /\ ToolArguments(r).t = "object" =>
            /\ \A k \in DeclaredSchema(deployment, ToolName(r)).required
                        \ DOMAIN ToolArguments(r).f :
                  /\ resp[r].status = 200
                  /\ resp[r].body.kind = "error"
                  /\ resp[r].body.msg.text = "Invalid parameters: "
                  /\ k \in SeqToSet(resp[r].body.msg.detail)
                  /\ calls[r] = <<>>
            /\ (/\ DOMAIN ToolArguments(r).f
                      = DeclaredSchema(deployment, ToolName(r)).required
                /\ \A k \in DOMAIN ToolArguments(r).f : ToolArguments(r).f[k] # "invalid")
                  => /\ resp[r].status = 200
                     /\ resp[r].body.kind = "result"
                     /\ resp[r].body.result.type = "content"

\* interview_persona called with a slug and no message has been answered
C5_Witness ==
    \E r \in slots :
        /\ Answered(r)
        /\ DeclaredToolCall(r)
        /\ ToolName(r) = "sociologic_interview_persona"
        /\ ToolArguments(r).t = "object"
        /\ DOMAIN ToolArguments(r).f = {"slug"}
        /\ resp[r].body.kind = "error"
        /\ "message" \in SeqToSet(resp[r].body.msg.detail)

(***************************************************************************)
(* C6                                                                      *)
(***************************************************************************)

\* in both entry points the declared names are case labels, and two of
\* them never share a client method or an endpoint
EveryDeclaredToolHasItsOwnCase ==
    /\ Len(TOOL_DEFINITIONS_CURRENT) = 20
    /\ Cardinality(DeclaredNames("current")) = 20
    /\ \A dep \in Deployments :
          /\ DeclaredNames(dep) \subseteq executeToolCases(dep)
          /\ \A n, m \in DeclaredNames(dep) :
                n # m => CaseMethod(n) # CaseMethod(m) /\ EndpointOf(n) # EndpointOf(m)

C7_AsStated ==
    \A r \in slots :
        /\ Len(calls[r]) <= 1
        /\ Answered(r) /\ ValidatedToolCall(r) => Len(calls[r]) = 1

\* C7: every tools/call whose arguments pass validation has issued exactly
\* one outbound request when it is answered, whatever the outcome of that
\* request and never a second one, except sociologic_export_campaign with
\* format pdf (given or by default), which issues none: exportCampaign
\* returns the export URL without fetching it.
C7_OneRequestUnlessPdfExport ==
    \A r \in slots :
        /\ Len(calls[r]) <= 1
        /\ Answered(r) /\ ValidatedToolCall(r)
              => Len(calls[r]) = IF PdfExport(r) THEN 0 ELSE 1
        /\ ValidatedToolCall(r) /\ ~PdfExport(r) /\ ~Answered(r) => Len(calls[r]) = 1

\* an export with format json has been answered after its timer fired
C7_Witness ==
    \E r \in slots :
        /\ Answered(r)
        /\ ValidatedToolCall(r)
        /\ ToolName(r) = "sociologic_export_campaign"
        /\ "format" \in DOMAIN ToolArguments(r).f
        /\ ToolArguments(r).f["format"] = "json"
        /\ timer[r] = "fired"
        /\ Len(calls[r]) = 1

\* an export with the default format has been answered without any request
C7_PdfWitness ==
    \E r \in slots :
        /\ Answered(r)
        /\ ValidatedToolCall(r)
        /\ PdfExport(r)
        /\ "format" \notin DOMAIN ToolArguments(r).f
        /\ calls[r] = <<>>
        /\ resp[r].body.kind = "result"

(***************************************************************************)
(* C8                                                                      *)
(***************************************************************************)

\* C8: when the timer of request() fires before the backend has completed
\* its response, request() returns the error value with code TIMEOUT and
\* the message naming the timeout, and no other attempt is made.  The code
\* does not satisfy this.
C8_TimeoutIsReported ==
    \A r \in slots :
        timer[r] = "fired"
            => /\ net[r].value
                    = ErrorResponse("TIMEOUT", TimeoutMessage(InFlight(r).timeoutMs))
               /\ Len(calls[r]) = 1

\* what the code does satisfy: TIMEOUT when the abort lands on the fetch or
\* on the body of a 2xx, one attempt in every case
C8_TimeoutBeforeErrorBody ==
    \A r \in slots :
        timer[r] = "fired"
            => /\ Len(calls[r]) = 1
               /\ net[r].value.kind = "error"
               /\ net[r].status = 0 \/ ok(net[r].status) => net[r].value.code = "TIMEOUT"

(***************************************************************************)
(* C9                                                                      *)
(***************************************************************************)

\* C9: under fairness of the timer, every request that waits for the
\* backend is eventually answered, even if the backend never answers.  The
\* code does not satisfy this.
C9_EventuallyAnswered ==
    \A r \in RequestIds : (pc[r] \in {"awaitFetch", "awaitJson"}) ~> Answered(r)

\* what the code does satisfy: a request that waits on a call made by
\* request() is eventually answered
C9_RequestCallsEventuallyAnswered ==
    \A r \in RequestIds :
        (pc[r] \in {"awaitFetch", "awaitJson"} /\ InFlight(r).fn = "request")
            ~> Answered(r)

\* what the code does satisfy: a call made by request() has its timer armed
\* for as long as it waits, and only getX402Discovery waits without one
C9_TimerGuardsRequest ==
    \A r \in slots :
        pc[r] \in {"awaitFetch", "awaitJson"}
            => IF InFlight(r).fn = "request" THEN timer[r] = "armed"
               ELSE InFlight(r).fn = "getX402Discovery" /\ timer[r] = "none"

(***************************************************************************)
(* C10                                                                     *)
(***************************************************************************)

\* C10: a failure of the backend call of a tools/call (network failure,
\* timeout, non-2xx) is returned by the client as a value with a code and a
\* message, and is answered with HTTP 200 and a JSON-RPC result whose
\* content is that error value and whose id is the id of the request; it
\* is never answered 500.  The code does not satisfy the clause on the id.
C10_FailureIsAResult ==
    \A r \in slots :
        BackendFailed(r) /\ BodyRead(r)
            => /\ resp[r].status = 200
               /\ resp[r].body.kind = "result"
               /\ resp[r].body.result.value = net[r].value
               /\ net[r].value.code # "" /\ net[r].value.message # ""
               /\ resp[r].body.id = body[r].json.id

\* what the code does satisfy: the same without the wire id
C10_FailureIsAResultOfTheParsedId ==
    \A r \in slots :
        BackendFailed(r)
            => /\ resp[r].status = 200
               /\ resp[r].body.kind = "result"
               /\ resp[r].body.result.value = net[r].value
               /\ net[r].value.code # "" /\ net[r].value.message # ""
               /\ resp[r].body.id = JSONstringify(rpc[r].id)

(***************************************************************************)
(* C11                                                                     *)
(***************************************************************************)

\* the request in slot r was dispatched as initialize
InitializeCall(r) == rpc[r].method = J("string", "initialize")

\* C11: an initialize request has made exactly one backend call, GET
\* /api/v1/auth/validate, from its dispatch on and so before its response;
\* if that call returned an error (an error value of the client, or a body
\* with an error member) the response is the JSON-RPC error -32600 whose
\* message embeds the message of that error, and the capabilities are
\* returned only when the call returned no error.
C11_InitializeValidatesFirst ==
    \A r \in slots :
        InitializeCall(r) =>
            /\ Len(calls[r]) = 1
            /\ calls[r][1].method = "GET"
            /\ calls[r][1].path = "/api/v1/auth/validate"
            /\ ~Answered(r) => resp[r] = NoResponse
            /\ Answered(r) /\ HasError(net[r].value) =>
                  /\ resp[r].status = 200
                  /\ resp[r].body.kind = "error"
                  /\ resp[r].body.code = INVALID_REQUEST
                  /\ resp[r].body.msg
                        = Msg("API key validation failed: ", <<net[r].value.message>>)
            /\ resp[r].body.kind = "result" =>
                  /\ resp[r].body.result.type = "initialize"
                  /\ net[r].phase = "returned"
                  /\ ~HasError(net[r].value)

\* an initialize whose validation call timed out has been answered -32600
C11_Witness ==
    \E r \in slots :
        /\ Answered(r)
        /\ InitializeCall(r)
        /\ timer[r] = "fired"
        /\ net[r].value.code = "TIMEOUT"
        /\ resp[r].body.code = INVALID_REQUEST

\* an initialize whose validation call succeeded has got the capabilities
C11_CapabilitiesWitness ==
    \E r \in slots :
        /\ Answered(r)
        /\ InitializeCall(r)
        /\ net[r].value = JsonResponse("data")
        /\ resp[r].body.result.type = "initialize"

(***************************************************************************)
(* C12                                                                     *)
(***************************************************************************)

\* the request in slot r was handed to handleRequest
Dispatched(r) == rpc[r] # NoRequest

\* ... with a method handleRequest has no case for
UnknownMethodCall(r) ==
    /\ Dispatched(r)
    /\ rpc[r].method.v \notin DispatchedMethods(deployment)

\* ... as a tools/call whose name is no case label of executeTool
UnknownToolCall(r) ==
    /\ rpc[r].method = J("string", "tools/call")
    /\ ~(/\ rpc[r].params.name.t = "string"
         /\ rpc[r].params.name.v \in executeToolCases(deployment))

\* C12: a request whose method is not dispatched is answered with the
\* JSON-RPC error -32601 naming the method, and a tools/call whose name is
\* not a known tool with the JSON-RPC error -32603 whose data.tool is the
\* requested name; neither makes a backend call.
C12_UnknownMethodAndUnknownTool ==
    \A r \in slots :
        /\ UnknownMethodCall(r) =>
              /\ Answered(r)
              /\ calls[r] = <<>>
              /\ resp[r].status = 200
              /\ resp[r].body.kind = "error"
              /\ resp[r].body.code = METHOD_NOT_FOUND
              /\ resp[r].body.msg = Msg("Method not found: ", <<rpc[r].method.v>>)
        /\ UnknownToolCall(r) =>
              /\ Answered(r)
              /\ calls[r] = <<>>
              /\ resp[r].body.kind = "error"
              /\ resp[r].body.code = INTERNAL_ERROR
              /\ resp[r].body.tool = rpc[r].params.name
              /\ rpc[r].params.t \notin {"absent", "null"} =>
                    /\ resp[r].status = 200
                    /\ resp[r].body.msg.text = "Unknown tool: "

\* a tools/call for unknown_tool has been answered -32603 tagged with it
C12_Witness ==
    \E r \in slots :
        /\ Answered(r)
        /\ UnknownToolCall(r)
        /\ rpc[r].params.name = J("string", "unknown_tool")
        /\ resp[r].body.code = INTERNAL_ERROR
        /\ resp[r].body.tool = J("string", "unknown_tool")

\* the method unknown/method has been answered -32601
C12_MethodWitness ==
    \E r \in slots :
        /\ Answered(r)
        /\ UnknownMethodCall(r)
        /\ rpc[r].method = J("string", "unknown/method")
        /\ resp[r].body.code = METHOD_NOT_FOUND


(***************************************************************************)
(* C13                                                                     *)
(***************************************************************************)

\* the request in slot r was dispatched as tools/list
ToolsListCall(r) == rpc[r].method = J("string", "tools/list")

\* tools.ts lines 236-480 declare twenty tools, lines 638-714 fifteen, and
\* no two entries of either array share a name
DeclaredToolsAreDistinct ==
    /\ Len(TOOL_DEFINITIONS("current")) = 20
    /\ Len(TOOL_DEFINITIONS("legacy")) = 15
    /\ \A dep \in {"legacy", "current"} :
          \A i, j \in 1..Len(TOOL_DEFINITIONS(dep)) :
              TOOL_DEFINITIONS(dep)[i].name = TOOL_DEFINITIONS(dep)[j].name => i = j

TrimmedKey(h) ==
    trim(IF h.xApiKey.present /\ h.xApiKey.s # <<>> THEN h.xApiKey.s
         ELSE AfterBearer(h.authorization.s))

\* everything the handling of the request in slot r has written
SlotState(r) ==
    <<pc[r], http[r], body[r], handler[r], rpc[r], calls[r], net[r], timer[r], resp[r]>>

\* the answer to the request in slot r is the one fetch() gives to its
\* headers, its body and the outcome of its own backend call
AnsweredAsAlone(r) ==
    \E head \in {fetchHead(http[r])} :
        IF head.o = "answer" THEN resp[r] = head.response /\ calls[r] = <<>>
        ELSE IF body[r] = NoBodyRead THEN resp[r] = ProcessingFailed /\ calls[r] = <<>>
        ELSE \E step \in {fetchBody(deployment, head.client, body[r])} :
                /\ rpc[r] = step.mcpRequest
                /\ IF step.o = "done"
                   THEN resp[r] = step.response /\ calls[r] = <<>>
                   ELSE /\ calls[r] = <<step.call>>
                        /\ resp[r].status = 200
                        /\ resp[r].body = serialize(resume(step.mcpRequest, net[r].value))
                        /\ resp[r].body.id = JSONstringify(rpc[r].id)

\* every step is a step of one request and leaves what the others wrote
OneRequestPerStep ==
    \E r \in slots : \A q \in slots \ {r} : SlotState(q)' = SlotState(q)

\* C14 as stated: with requests in flight at once, every outbound call
\* carries the API key of the request that caused it, every response is the
\* one the request gets when handled alone, and no step of one request
\* touches the state of another.
C14_AsStated ==
    /\ [](\A r \in slots :
            /\ \A i \in 1..Len(calls[r]) :
                  calls[r][i].apiKey = Hdr(TrimmedKey(http[r]))
            /\ Answered(r) => AnsweredAsAlone(r))
    /\ [][OneRequestPerStep]_vars

\* C14, amended: with requests in flight at once, every outbound call made
\* through request() carries the API key of the request that caused it and
\* the call of getX402Discovery carries no key at all, every response is the
\* one the request gets when handled alone, and no step of one request
\* touches the state of another.
C14_RequestsDoNotInteract ==
    /\ [](\A r \in slots :
            /\ \A i \in 1..Len(calls[r]) :
                  IF calls[r][i].fn = "getX402Discovery"
                  THEN calls[r][i].apiKey = NoHeader
                  ELSE calls[r][i].apiKey = Hdr(TrimmedKey(http[r]))
            /\ Answered(r) => AnsweredAsAlone(r))
    /\ [][OneRequestPerStep]_vars

\* two requests with different keys and ids have both called the backend;
\* one has its answer while the other still waits for the backend's body
C14_Witness ==
    \E r, q \in slots :
        /\ r # q
        /\ Answered(r) /\ pc[q] = "awaitJson"
        /\ Len(calls[r]) = 1 /\ Len(calls[q]) = 1
        /\ calls[r][1].apiKey = Hdr(<<"k", "1">>)
        /\ calls[q][1].apiKey = Hdr(<<"k", "2">>)
        /\ rpc[r].id # rpc[q].id
        /\ resp[r].body.kind = "result"


(***************************************************************************)
(* C15                                                                     *)
(***************************************************************************)

\* the request in slot r has called the backend for initialize or for a
\* declared tool
CallsBackend(r) ==
    /\ calls[r] # <<>>
    /\ InitializeCall(r) \/ DeclaredToolCall(r)

\* C15 as stated: every outbound call made for initialize or for a declared
\* tool carries an X-API-Key header equal to the trimmed key of the inbound
\* request.
C15_AsStated ==
    \A r \in slots :
        CallsBackend(r) =>
            \A i \in 1..Len(calls[r]) :
                /\ calls[r][i].apiKey.present
                /\ calls[r][i].apiKey.s = TrimmedKey(http[r])

\* C15, amended: every outbound call made for initialize or for a declared
\* tool other than sociologic_get_x402_discovery carries an X-API-Key header
\* equal to the trimmed key of the inbound request; the call made for
\* sociologic_get_x402_discovery, a GET of /.well-known/x402.json, carries
\* no X-API-Key header.
C15_KeyOnEveryCallButDiscovery ==
    \A r \in slots :
        CallsBackend(r) =>
            \A i \in 1..Len(calls[r]) :
                IF DeclaredToolCall(r) /\ ToolName(r) = "sociologic_get_x402_discovery"
                THEN /\ ~calls[r][i].apiKey.present
                     /\ calls[r][i].path = "/.well-known/x402.json"
                ELSE /\ calls[r][i].apiKey.present
                     /\ calls[r][i].apiKey.s = TrimmedKey(http[r])

\* a tool call sent with the key " k1 " has called the backend with the
\* key k1
C15_Witness ==
    \E r \in slots :
        /\ DeclaredToolCall(r)
        /\ http[r].xApiKey = Hdr(<<" ", "k", "1", " ">>)
        /\ Len(calls[r]) = 1
        /\ calls[r][1].apiKey = Hdr(<<"k", "1">>)

\* the discovery tool has called the backend without a key
C15_DiscoveryWitness ==
    \E r \in slots :
        /\ DeclaredToolCall(r)
        /\ ToolName(r) = "sociologic_get_x402_discovery"
        /\ Len(calls[r]) = 1
        /\ calls[r][1].apiKey = NoHeader


(***************************************************************************)
(* C16                                                                     *)
(***************************************************************************)

\* the body of the request in slot r parses to an object that is not a
\* JSON-RPC envelope fetch() accepts
MalformedEnvelope(r) ==
    /\ body[r].json.t = "object"
    /\ \/ body[r].json.jsonrpc # J("string", "2.0")
       \/ body[r].json.method.t # "string"
       \/ body[r].json.id.t \notin {"absent", "null", "string", "number"}

\* the request in slot r got the HTTP status and the JSON-RPC error code,
\* and neither a method handler nor the backend was reached
RefusedUndispatched(r, status, code) ==
    /\ resp[r].status = status
    /\ resp[r].body.kind = "error"
    /\ resp[r].body.code = code
    /\ rpc[r] = NoRequest
    /\ calls[r] = <<>>
    /\ net[r] = Idle

\* the errors of a body that is within the ceiling
BodyErrorsBeforeDispatch(r) ==
    /\ body[r].json.t = "unparsable" =>
          /\ RefusedUndispatched(r, 400, PARSE_ERROR)
          /\ resp[r].body.id = JNull
    /\ body[r].json.t \notin {"unparsable", "object"} =>
          RefusedUndispatched(r, 400, INVALID_REQUEST)
    /\ MalformedEnvelope(r) => RefusedUndispatched(r, 400, INVALID_REQUEST)

\* C16: an authenticated POST to an RPC path whose body is over the byte
\* ceiling is answered 413 with -32600, one whose body is not parsable JSON
\* 400 with -32700 and id null, one whose body is not a JSON object 400 with
\* -32600 and one whose body is a malformed envelope 400 with -32600, each
\* without any method handler having been dispatched to and without any
\* backend call.  The code does not satisfy this for bodies over the ceiling.
C16_TransportErrorsBeforeDispatch ==
    \A r \in slots :
        BodyRead(r) =>
            IF body[r].bytes > MAX_REQUEST_SIZE
            THEN RefusedUndispatched(r, 413, INVALID_REQUEST)
            ELSE BodyErrorsBeforeDispatch(r)

\* what the code does satisfy: the same with the ceiling counted in UTF-16
\* code units
C16_TransportErrorsInCodeUnits ==
    \A r \in slots :
        BodyRead(r) =>
            IF body[r].chars > MAX_REQUEST_SIZE
            THEN RefusedUndispatched(r, 413, INVALID_REQUEST)
            ELSE BodyErrorsBeforeDispatch(r)

\* a body of MAX_REQUEST_SIZE code units and one byte more was dispatched
C16_OversizedDispatched ==
    \E r \in slots :
        /\ BodyRead(r)
        /\ body[r].bytes > MAX_REQUEST_SIZE
        /\ rpc[r] # NoRequest
        /\ resp[r].status = 200

\* an envelope with a boolean id has been refused undispatched
C16_Witness ==
    \E r \in slots :
        /\ BodyRead(r)
        /\ MalformedEnvelope(r)
        /\ body[r].json.id.t = "boolean"
        /\ body[r].json.method = J("string", "tools/call")
        /\ RefusedUndispatched(r, 400, INVALID_REQUEST)


(***************************************************************************)
(* C17                                                                     *)
(***************************************************************************)

\* the body of the request in slot r was parsed to a JSON object
ParsedObject(r) ==
    /\ BodyRead(r)
    /\ body[r].chars <= MAX_REQUEST_SIZE
    /\ body[r].json.t = "object"

\* C17: a body parsed to a JSON object is dispatched to handleRequest if
\* and only if its jsonrpc member is the string "2.0", its method is a
\* string and its id is a string, a number, null or absent; every other
\* object body is answered HTTP 400 with the JSON-RPC error -32600.
C17_DispatchedIffWellFormed ==
    \A r \in slots :
        ParsedObject(r) =>
            /\ Dispatched(r) <=>
                  /\ body[r].json.jsonrpc = J("string", "2.0")
                  /\ body[r].json.method.t = "string"
                  /\ body[r].json.id.t \in {"string", "number", "null", "absent"}
            /\ ~Dispatched(r) =>
                  /\ resp[r].status = 400
                  /\ resp[r].body.kind = "error"
                  /\ resp[r].body.code = INVALID_REQUEST
            /\ Dispatched(r) => rpc[r] = MCPRequest(body[r].json)

\* an envelope without an id has been dispatched, and answered
C17_Witness ==
    \E r \in slots :
        /\ ParsedObject(r)
        /\ body[r].json.id = Absent
        /\ Dispatched(r)
        /\ rpc[r].method = J("string", "ping")
        /\ resp[r].body.kind = "result"

\* an envelope with the version "1.0" has been refused
C17_RefusedWitness ==
    \E r \in slots :
        /\ ParsedObject(r)
        /\ body[r].json.jsonrpc = J("string", "1.0")
        /\ body[r].json.id.t = "null"
        /\ ~Dispatched(r)
        /\ resp[r].status = 400


(***************************************************************************)
(* C18                                                                     *)
(***************************************************************************)

SociologicScheme == <<"s", "o", "c", "i", "o", "l", "o", "g", "i", "c", ":", "/", "/">>

\* the request in slot r was answered, without a backend call, with a
\* result that lists prompts, interview_persona and its arguments among them
PromptsListed(r) ==
    /\ Answered(r)
    /\ calls[r] = <<>>
    /\ resp[r].status = 200
    /\ resp[r].body.kind = "result"
    /\ resp[r].body.result.type = "prompts"
    /\ resp[r].body.result.items # <<>>
    /\ \E i \in 1..Len(resp[r].body.result.items) :
          /\ resp[r].body.result.items[i].name = "interview_persona"
          /\ resp[r].body.result.items[i].arguments # <<>>

\* ... with a result that lists resources, each under a sociologic:// uri
ResourcesListed(r) ==
    /\ Answered(r)
    /\ calls[r] = <<>>
    /\ resp[r].status = 200
    /\ resp[r].body.kind = "result"
    /\ resp[r].body.result.type = "resources"
    /\ resp[r].body.result.items # <<>>
    /\ \A i \in 1..Len(resp[r].body.result.items) :
          IsPrefix(SociologicScheme, resp[r].body.result.items[i].uri)

\* C18: a dispatched prompts/list request is answered with a result whose
\* non-empty prompts list contains interview_persona with its arguments, and
\* a dispatched resources/list request with a result whose non-empty
\* resources list has only uris that start with sociologic://; neither is
\* answered 'method not found' and neither makes a backend call.  The entry
\* point src/src/index.ts does not satisfy this.
C18_ListsAreHandled ==
    \A r \in slots :
        /\ rpc[r].method = J("string", "prompts/list") => PromptsListed(r)
        /\ rpc[r].method = J("string", "resources/list") => ResourcesListed(r)

\* what the code does satisfy: the entry point of src/unnamed/part_001
\* handles both methods, the one of src/src/index.ts answers both -32601
C18_ListsAreHandledByCurrentOnly ==
    \A r \in slots :
        /\ deployment = "current" =>
              /\ rpc[r].method = J("string", "prompts/list") => PromptsListed(r)
              /\ rpc[r].method = J("string", "resources/list") => ResourcesListed(r)
        /\ deployment = "legacy"
           /\ rpc[r].method.v \in {"prompts/list", "resources/list"} =>
              /\ resp[r].body.code = METHOD_NOT_FOUND
              /\ calls[r] = <<>>

\* the entry point of src/src/index.ts has answered prompts/list -32601
C18_MethodNotFound ==
    \E r \in slots :
        /\ deployment = "legacy"
        /\ rpc[r].method = J("string", "prompts/list")
        /\ resp[r].body.code = METHOD_NOT_FOUND

\* the entry point of src/unnamed/part_001 has answered resources/list
C18_Witness ==
    \E r \in slots :
        /\ deployment = "current"
        /\ rpc[r].method = J("string", "resources/list")
        /\ ResourcesListed(r)
        /\ Len(resp[r].body.result.items) = 3


(***************************************************************************)
(* C19                                                                     *)
(***************************************************************************)

\* the request in slot r is a call of one of the two tools that take an
\* x402 payment, and it has called the backend
PaidToolCall(r) ==
    /\ DeclaredToolCall(r)
    /\ ToolName(r) \in {"sociologic_create_persona", "sociologic_interview_persona"}
    /\ calls[r] # <<>>

\* ... and its arguments include x402_payment
PaymentSupplied(r) == "x402_payment" \in DOMAIN ToolArguments(r).f

\* the X-Payment header that encodes the payment argument of slot r, with
\* scheme and network as given or else "exact" and "eip155:8453"
ExpectedPayment(r) ==
    [present |-> TRUE,
     scheme  |-> IF ToolArguments(r).f["x402_payment"] = "full"
                 THEN "custom-scheme" ELSE "exact",
     network |-> IF ToolArguments(r).f["x402_payment"] = "full"
                 THEN "custom-network" ELSE "eip155:8453",
     payload |-> "payload"]

\* C19: a call of sociologic_create_persona or sociologic_interview_persona
\* makes a single outbound request; when its arguments include x402_payment
\* that request carries an X-Payment header with the payload, the scheme
\* (default "exact") and the network (default "eip155:8453"), and when they
\* do not it carries no X-Payment header.  The entry point src/src/index.ts
\* does not satisfy this.
C19_PaymentPassedThrough ==
    \A r \in slots :
        PaidToolCall(r) =>
            /\ Len(calls[r]) = 1
            /\ IF PaymentSupplied(r)
               THEN calls[r][1].payment = ExpectedPayment(r)
               ELSE calls[r][1].payment = NoPayment

\* what the code does satisfy: the entry point of src/unnamed/part_001
\* passes the payment on, the one of src/src/index.ts never sends X-Payment
C19_PaymentPassedThroughByCurrentOnly ==
    \A r \in slots :
        PaidToolCall(r) =>
            /\ Len(calls[r]) = 1
            /\ IF PaymentSupplied(r) /\ deployment = "current"
               THEN calls[r][1].payment = ExpectedPayment(r)
               ELSE calls[r][1].payment = NoPayment

\* the entry point of src/src/index.ts has forwarded a call without the
\* payment it was given
C19_PaymentDropped ==
    \E r \in slots :
        /\ deployment = "legacy"
        /\ PaidToolCall(r)
        /\ PaymentSupplied(r)
        /\ calls[r][1].payment = NoPayment

\* the entry point of src/unnamed/part_001 has forwarded a payment that
\* names no scheme and no network under the defaults
C19_Witness ==
    \E r \in slots :
        /\ deployment = "current"
        /\ PaidToolCall(r)
        /\ PaymentSupplied(r)
        /\ ToolArguments(r).f["x402_payment"] = "ok"
        /\ calls[r][1].payment.scheme = "exact"
        /\ calls[r][1].payment.network = "eip155:8453"


(***************************************************************************)
(* C20                                                                     *)
(***************************************************************************)

\* the request carries a key in its query string and in no header
KeyOnlyInQuery(h) ==
    /\ h.search.present /\ ~Blank(h.search.s)
    /\ ~h.xApiKey.present
    /\ ~h.authorization.present

\* fetch() refuses the request for want of a key
Refused401(h) == fetchHead(h).o = "answer" /\ fetchHead(h).response.status = 401

\* the request in slot r is answered as it would be with any other query
\* string: refused with 401 or not, and if answered from its headers alone,
\* with the same response
SameOutcomeWhateverTheQuery(r) ==
    \A q \in Searches :
        /\ Refused401([http[r] EXCEPT !.search = q]) <=> resp[r].status = 401
        /\ body[r] = NoBodyRead /\ resp[r] # ProcessingFailed
              => fetchHead([http[r] EXCEPT !.search = q]).response = resp[r]

\* C20 as stated: requests that differ only in their query string get the
\* same authentication outcome, and a request whose key appears only as a
\* query parameter is answered 401.
C20_AsStated ==
    \A r \in slots :
        Answered(r) =>
            /\ SameOutcomeWhateverTheQuery(r)
            /\ KeyOnlyInQuery(http[r]) => resp[r].status = 401

\* C20, amended: requests that differ only in their query string get the
\* same authentication outcome, and a request whose key appears only as a
\* query parameter is answered as a request without any key: 401, unless it
\* is an OPTIONS preflight, asks for the discovery document or declares a
\* Content-Length above MAX_REQUEST_SIZE.
C20_KeysOnlyInHeaders ==
    \A r \in slots :
        Answered(r) =>
            /\ SameOutcomeWhateverTheQuery(r)
            /\ KeyOnlyInQuery(http[r]) =>
                  /\ handler[r] = NoClient
                  /\ calls[r] = <<>>
                  /\ resp[r].status =
                        CASE http[r].method = "OPTIONS" -> 204
                          [] http[r].path = ServerCardPath -> 200
                          [] declaredTooLarge(http[r]) -> 413
                          [] OTHER -> 401

\* a POST /?api_key=k1 without key headers has been answered 401
C20_Witness ==
    \E r \in slots :
        /\ Answered(r)
        /\ KeyOnlyInQuery(http[r])
        /\ http[r].method = "POST" /\ http[r].path = "/"
        /\ resp[r].status = 401

\* a request with a key header and a key in the query has been dispatched
C20_QueryIgnoredWitness ==
    \E r \in slots :
        /\ Answered(r)
        /\ http[r].search.present
        /\ http[r].xApiKey = Hdr(<<" ", "k", "1", " ">>)
        /\ Dispatched(r)
        /\ resp[r].status = 200


(***************************************************************************)
(* C21                                                                     *)
(***************************************************************************)

\* the request in slot r has a key, is no preflight and declares no length
\* above the ceiling, and fetch() has answered it
Routed(r) ==
    /\ Answered(r)
    /\ ValidKey(http[r])
    /\ http[r].method # "OPTIONS"
    /\ ~declaredTooLarge(http[r])

\* ... it was answered from its request line and headers: no body was
\* read, no method handler dispatched to and no backend called
AnsweredFromHead(r) ==
    /\ body[r] = NoBodyRead
    /\ rpc[r] = NoRequest
    /\ calls[r] = <<>>

\* the answer to the request in slot r is the one fetch() gives to the
\* request h with the body and the backend outcome of slot r
AnsweredAs(r, h) ==
    \E head \in {fetchHead(h)} :
        /\ head.o = "read"
        /\ IF body[r] = NoBodyRead THEN resp[r] = ProcessingFailed
           ELSE \E step \in {fetchBody(deployment, head.client, body[r])} :
                   IF step.o = "done" THEN resp[r] = step.response
                   ELSE resp[r] = Response(200, serialize(resume(step.mcpRequest,
                                                                 net[r].value)))

\* the routes the statement lists
SsePaths == {"/sse", "/mcp/sse"}

ListedRoutes(r) ==
    /\ http[r].path \in SsePaths =>
          /\ resp[r].status = 501
          /\ resp[r].body.ecode = "NOT_IMPLEMENTED"
          /\ AnsweredFromHead(r)
    /\ http[r].path \in RpcPaths /\ http[r].method # "POST" =>
          /\ resp[r].status = 405
          /\ AnsweredFromHead(r)
    /\ http[r].path \in RpcPaths /\ http[r].method = "POST" =>
          \A p \in RpcPaths : AnsweredAs(r, [http[r] EXCEPT !.path = p])
    /\ http[r].path \in {"/health", "/info"} =>
          /\ resp[r].status = 200
          /\ resp[r].body.kind = (IF http[r].path = "/health" THEN "health" ELSE "info")
          /\ AnsweredFromHead(r)

NotFound(r) ==
    /\ resp[r].status = 404
    /\ resp[r].body.ecode = "NOT_FOUND"
    /\ AnsweredFromHead(r)

\* C21 as stated: for a request with a key that is no preflight and declares
\* no oversize length, /sse and /mcp/sse answer 501 NOT_IMPLEMENTED whatever
\* the method, the RPC paths answer 405 for every method but POST without
\* reading the body and treat POST alike, /health and /info answer 200, and
\* every other path answers 404 NOT_FOUND.
C21_AsStated ==
    \A r \in slots :
        Routed(r) =>
            /\ ListedRoutes(r)
            /\ http[r].path \notin SsePaths \cup RpcPaths \cup {"/health", "/info"}
                  => NotFound(r)

\* C21, amended: the same, where every other path except the discovery
\* document /.well-known/mcp/server-card.json answers 404 NOT_FOUND and the
\* discovery document answers 200.
C21_RouteTable ==
    \A r \in slots :
        Routed(r) =>
            /\ ListedRoutes(r)
            /\ http[r].path = ServerCardPath =>
                  /\ resp[r].status = 200
                  /\ resp[r].body.kind = "card"
                  /\ AnsweredFromHead(r)
            /\ http[r].path \notin SsePaths \cup RpcPaths
                                   \cup {"/health", "/info", ServerCardPath}
                  => NotFound(r)

\* a PUT /mcp with a key has been answered 405
C21_Witness ==
    \E r \in slots :
        /\ Routed(r)
        /\ http[r].method = "PUT" /\ http[r].path = "/mcp"
        /\ resp[r].status = 405

\* a POST /rpc with a key has been dispatched and answered after a backend
\* call
C21_RpcWitness ==
    \E r \in slots :
        /\ Routed(r)
        /\ http[r].method = "POST" /\ http[r].path = "/rpc"
        /\ calls[r] # <<>>
        /\ resp[r].status = 200

\* a POST /unknown with a key has been answered 404
C21_NotFoundWitness ==
    \E r \in slots :
        /\ Routed(r)
        /\ http[r].method = "POST" /\ http[r].path = "/unknown"
        /\ NotFound(r)


(***************************************************************************)
(* C22                                                                     *)
(***************************************************************************)

\* the statuses of the branches of fetch(): preflight, results and errors
\* of JSON-RPC, bad bodies, no key, unknown path, wrong method, oversize,
\* failure and the streaming paths
BranchStatuses == {204, 200, 400, 401, 404, 405, 413, 500, 501}

C22_PreflightWitness ==
    \E r \in slots :
        /\ Answered(r)
        /\ http[r].method = "OPTIONS"
        /\ resp[r].status = 204
        /\ resp[r].cors

\* a backend failure has been answered as a result with the header
C22_ResultWitness ==
    \E r \in slots :
        /\ Answered(r)
        /\ BackendFailed(r)
        /\ resp[r].body.kind = "result"
        /\ resp[r].cors


(***************************************************************************)
(* C23                                                                     *)
(***************************************************************************)

\* the schema tools/list advertises for the tool called in slot r accepts
\* the arguments of the call
AdvertisedSchemaAccepts(r) ==
    safeParse(DeclaredSchema(deployment, ToolName(r)), ToolArguments(r)).success

\* the call in slot r was refused with the parameter error, before any
\* backend call
RejectedAsInvalid(r) ==
    /\ Answered(r)
    /\ calls[r] = <<>>
    /\ resp[r].body.kind = "error"
    /\ resp[r].body.msg.text = "Invalid parameters: "

\* the advertised x402_payment of the call in slot r is on its backend call
AdvertisedPaymentForwarded(r) ==
    /\ "x402_payment" \in SeqToSet(DeclaredSchema(deployment, ToolName(r)).fields)
    /\ "x402_payment" \in DOMAIN ToolArguments(r).f
    => /\ calls[r] # <<>>
       /\ calls[r][1].payment.present

\* C23: for every declared tool, a tools/call whose arguments the advertised
\* schema accepts is not refused as invalid and its advertised x402_payment
\* reaches the backend call, and a tools/call whose arguments the advertised
\* schema rejects, a non-object value for a tool with an empty schema
\* included, is refused with the parameter error before any backend call.
\* The code does not satisfy this.
C23_ValidatedAsAdvertised ==
    \A r \in slots :
        DeclaredToolCall(r) =>
            IF AdvertisedSchemaAccepts(r)
            THEN /\ ~RejectedAsInvalid(r)
                 /\ AdvertisedPaymentForwarded(r)
            ELSE RejectedAsInvalid(r)

\* what the code does satisfy: the same for every declared tool but the two
\* whose case in executeTool never looks at the arguments
C23_ValidatedAsAdvertisedWhereValidated ==
    /\ \A dep \in Deployments :
          \A n \in DeclaredNames(dep) \ UnvalidatedCases :
              CaseSchema(dep, n) = DeclaredSchema(dep, n)
    /\ \A r \in slots :
          DeclaredToolCall(r) =>
              IF ToolName(r) \in UnvalidatedCases
              THEN /\ ~RejectedAsInvalid(r)
                   /\ calls[r] # <<>>
              ELSE IF AdvertisedSchemaAccepts(r)
              THEN /\ ~RejectedAsInvalid(r)
                   /\ AdvertisedPaymentForwarded(r)
              ELSE RejectedAsInvalid(r)

\* sociologic_get_credits_balance was called with a string for arguments,
\* and the backend was called
C23_UnvalidatedWitness ==
    \E r \in slots :
        /\ DeclaredToolCall(r)
        /\ ToolName(r) = "sociologic_get_credits_balance"
        /\ ToolArguments(r).t = "string"
        /\ ~AdvertisedSchemaAccepts(r)
        /\ Len(calls[r]) = 1
        /\ calls[r][1].path = "/api/v1/auth/validate"


(***************************************************************************)
(* C24                                                                     *)
(***************************************************************************)

\* the call in slot r was refused before any backend call with the error
\* 'Invalid parameters: ' followed by the issues of the failing fields in
\* the order of the schema, tagged with the name of the tool
RefusedWithIssues(r) ==
    /\ Answered(r)
    /\ calls[r] = <<>>
    /\ net[r] = Idle
    /\ resp[r].status = 200
    /\ resp[r].body.kind = "error"
    /\ resp[r].body.msg
          = Msg("Invalid parameters: ",
                safeParse(DeclaredSchema(deployment, ToolName(r)), ToolArguments(r)).paths)
    /\ resp[r].body.tool = J("string", ToolName(r))

\* C24: a tools/call for a declared tool whose arguments fail the schema of
\* the tool makes no outbound backend call and is answered with the JSON-RPC
\* error whose message is 'Invalid parameters: ' followed by the entries of
\* the failing fields and whose data.tool is the name of the tool.  The code
\* does not satisfy this for the tools it does not validate.
C24_ValidationBeforeForwarding ==
    \A r \in slots :
        DeclaredToolCall(r) /\ ~AdvertisedSchemaAccepts(r) => RefusedWithIssues(r)

\* what the code does satisfy: the same for every tool whose case in
\* executeTool calls safeParseArgs
C24_ValidationBeforeForwardingWhereValidated ==
    \A r \in slots :
        /\ DeclaredToolCall(r)
        /\ ToolName(r) \notin UnvalidatedCases
        /\ ~AdvertisedSchemaAccepts(r)
        => RefusedWithIssues(r)

\* a sociologic_interview_persona call that lacks both required fields has
\* been refused with both named
C24_Witness ==
    \E r \in slots :
        /\ DeclaredToolCall(r)
        /\ ToolName(r) = "sociologic_interview_persona"
        /\ ToolArguments(r) = Args("object", NoFields)
        /\ RefusedWithIssues(r)
        /\ resp[r].body.msg.detail = <<"slug", "message">>

\* sociologic_get_credits_balance was called without arguments, which its
\* schema rejects, and the backend was called
C24_ForwardedUnvalidated ==
    \E r \in slots :
        /\ DeclaredToolCall(r)
        /\ ToolName(r) = "sociologic_get_credits_balance"
        /\ ToolArguments(r).t = "null"
        /\ ~AdvertisedSchemaAccepts(r)
        /\ calls[r] # <<>>


(***************************************************************************)
(* C25                                                                     *)
(***************************************************************************)

\* C25: a body read from an authenticated POST to an RPC path whose size in
\* bytes exceeds MAX_REQUEST_SIZE is rejected with 413 and never parsed or
\* dispatched, whatever Content-Length declared and also when the body has
\* at most MAX_REQUEST_SIZE UTF-16 code units.  The code does not satisfy
\* this.
C25_ActualLengthInBytes ==
    \A r \in slots :
        BodyRead(r) /\ body[r].bytes > MAX_REQUEST_SIZE =>
            /\ resp[r].status = 413
            /\ resp[r].body.code = INVALID_REQUEST
            /\ rpc[r] = NoRequest

\* what the code does satisfy: a body of more than MAX_REQUEST_SIZE code
\* units is rejected with 413, one of at most MAX_REQUEST_SIZE code units is
\* parsed whatever its size in bytes
C25_ActualLengthInCodeUnits ==
    \A r \in slots :
        BodyRead(r) =>
            IF body[r].chars > MAX_REQUEST_SIZE
            THEN resp[r].status = 413 /\ rpc[r] = NoRequest
            ELSE /\ resp[r].status # 413
                 /\ body[r].json.t = "object" /\ ~MalformedEnvelope(r) => Dispatched(r)

\* a body of exactly MAX_REQUEST_SIZE code units and one byte more, sent
\* without Content-Length, has been answered "pong"
C25_MultiByteBodyAccepted ==
    \E r \in slots :
        /\ BodyRead(r)
        /\ http[r].contentLength = NoHeader
        /\ body[r].chars = MAX_REQUEST_SIZE
        /\ body[r].bytes = MAX_REQUEST_SIZE + 1
        /\ resp[r].status = 200
        /\ resp[r].body.result.type = "pong"


(***************************************************************************)
(* C26                                                                     *)
(***************************************************************************)

\* the request in slot r got HTTP 200 and a JSON-RPC response
JsonRpcInside200(r) ==
    /\ resp[r].status = 200
    /\ resp[r].body.jsonrpc = "2.0"
    /\ resp[r].body.kind \in {"result", "error"}

\* the request in slot r is a tools/call whose params cannot be destructured
ParamsNotDestructurable(r) ==
    /\ rpc[r].method = J("string", "tools/call")
    /\ rpc[r].params.t \in {"absent", "null"}

\* C26: every request that passed the envelope checks and was handed to
\* handleRequest is answered with HTTP 200 and a JSON-RPC response, a
\* tools/call whose params is absent, null or not an object included.  The
\* code does not satisfy this.
C26_NoFailureEscapes ==
    \A r \in slots :
        Answered(r) /\ Dispatched(r) => JsonRpcInside200(r)

\* what the code does satisfy: a tools/call whose params is absent or null
\* is answered by the outer catch of fetch(), HTTP 500 with id null, and
\* every other dispatched request with HTTP 200 and a JSON-RPC response
C26_OnlyMissingParamsEscape ==
    \A r \in slots :
        Answered(r) /\ Dispatched(r) =>
            IF ParamsNotDestructurable(r)
            THEN /\ resp[r] = ProcessingFailed
                 /\ resp[r].status = 500
                 /\ resp[r].body.id = JNull
                 /\ calls[r] = <<>>
            ELSE JsonRpcInside200(r)

\* a tools/call without params has been answered HTTP 500 with id null
C26_EscapedWitness ==
    \E r \in slots :
        /\ Answered(r)
        /\ rpc[r].method = J("string", "tools/call")
        /\ rpc[r].params.t = "absent"
        /\ rpc[r].id = J("number", "1")
        /\ resp[r].status = 500
        /\ resp[r].body.id = JNull

\* a tools/call whose params is a string has been answered with a JSON-RPC
\* error inside HTTP 200
C26_StringParamsWitness ==
    \E r \in slots :
        /\ Answered(r)
        /\ rpc[r].method = J("string", "tools/call")
        /\ rpc[r].params.t = "string"
        /\ JsonRpcInside200(r)
        /\ resp[r].body.kind = "error"


(***************************************************************************)
(* C27                                                                     *)
(***************************************************************************)

\* the timer of the call of slot r fired while request() awaited: the
\* fetch itself (no status yet), the body of a 2xx, or the error body of a
\* non-2xx
AbortedDuringFetch(r) == timer[r] = "fired" /\ net[r].status = 0

AbortedDuringBody(r) == timer[r] = "fired" /\ net[r].status # 0 /\ ok(net[r].status)

AbortedDuringErrorBody(r) == timer[r] = "fired" /\ net[r].status # 0 /\ ~ok(net[r].status)

\* C27: whenever the timer fires before request() has returned, the error
\* request() returns has the code TIMEOUT, whether the abort lands on the
\* fetch, on the body of a 2xx response or on the error body of a non-2xx
\* response.  The code does not satisfy this.
C27_TimeoutAtEveryAwait ==
    \A r \in slots :
        /\ AbortedDuringFetch(r) => net[r].value.code = "TIMEOUT"
        /\ AbortedDuringBody(r) => net[r].value.code = "TIMEOUT"
        /\ AbortedDuringErrorBody(r) => net[r].value.code = "TIMEOUT"

\* what the code does satisfy: TIMEOUT at the first two awaits, and at the
\* third the HTTP_<status> error of the inner catch
C27_AbortSwallowedByInnerCatch ==
    \A r \in slots :
        /\ AbortedDuringFetch(r) => net[r].value.code = "TIMEOUT"
        /\ AbortedDuringBody(r) => net[r].value.code = "TIMEOUT"
        /\ AbortedDuringErrorBody(r) =>
              /\ net[r].value = ErrorResponse(HttpCode(net[r].status), "HTTP status")
              /\ net[r].value.code # "TIMEOUT"

\* the abort landed on the error body of a 500 and the call was answered
\* with HTTP_500
C27_SwallowedWitness ==
    \E r \in slots :
        /\ Answered(r)
        /\ AbortedDuringErrorBody(r)
        /\ net[r].status = 500
        /\ net[r].value.code = "HTTP_500"

\* the abort landed on the body of a 200 and the call was answered TIMEOUT
C27_BodyWitness ==
    \E r \in slots :
        /\ Answered(r)
        /\ AbortedDuringBody(r)
        /\ net[r].value.code = "TIMEOUT"


(***************************************************************************)
(* C28                                                                     *)
(***************************************************************************)

IdTypes == {"string", "number", "null", "absent"}

\* the body of the request in slot r is an object rejected for its jsonrpc
\* member or its method
RejectedForVersionOrMethod(r) ==
    /\ ParsedObject(r)
    /\ \/ body[r].json.jsonrpc # J("string", "2.0")
       \/ body[r].json.method.t # "string"

\* C28: in every response to a request for an RPC path the id is a string,
\* a number, null or absent; the error response to a rejected envelope
\* never echoes an id of another type, also when the envelope is rejected
\* for its jsonrpc version or its method.  The code does not satisfy this.
C28_IdIsOfAJsonRpcType ==
    \A r \in slots :
        Answered(r) /\ http[r].path \in RpcPaths => resp[r].body.id.t \in IdTypes

\* what the code does satisfy: only the error for a wrong version or method
\* echoes whatever id the envelope carries; an envelope rejected for its id
\* alone is answered with id null
C28_IdEchoedUncheckedOnEnvelopeError ==
    \A r \in slots :
        Answered(r) /\ http[r].path \in RpcPaths =>
            IF RejectedForVersionOrMethod(r)
            THEN resp[r].body.id = JSONstringify(OrNull(JSONparse(body[r].json.id)))
            ELSE /\ resp[r].body.id.t \in IdTypes
                 /\ ParsedObject(r) /\ body[r].json.id.t \notin IdTypes
                       => resp[r].body.id = JNull

\* an envelope with the version "1.0" and the id true has been answered
\* with the id true
C28_BooleanIdEchoed ==
    \E r \in slots :
        /\ Answered(r)
        /\ RejectedForVersionOrMethod(r)
        /\ body[r].json.id = J("boolean", "true")
        /\ resp[r].status = 400
        /\ resp[r].body.id = J("boolean", "true")

\* an envelope with the version "2.0" and the id {} has been answered with
\* the id null
C28_ObjectIdRefused ==
    \E r \in slots :
        /\ Answered(r)
        /\ ParsedObject(r)
        /\ ~RejectedForVersionOrMethod(r)
        /\ body[r].json.id.t = "object"
        /\ resp[r].status = 400
        /\ resp[r].body.id = JNull


(***************************************************************************)
(* C29                                                                     *)
(***************************************************************************)

\* the first gate, in the order of the statement, that the request in slot
\* r does not pass: on its request line and headers ...
FirstGateOnHead(h) ==
    CASE h.method = "OPTIONS" -> "preflight"
      [] h.method # "OPTIONS" /\ h.path = ServerCardPath -> "discovery"
      [] OTHER ->
            IF declaredTooLarge(h) THEN "declared length"
            ELSE IF ~ValidKey(h) THEN "key"
            ELSE IF h.path \in SsePaths THEN "streaming"
            ELSE IF h.path \in RpcPaths /\ h.method # "POST" THEN "method"
            ELSE IF h.path \notin RpcPaths THEN "other route"
            ELSE "none"

\* ... and on its body, once read
FirstGateOnBody(b) ==
    IF b.chars > MAX_REQUEST_SIZE THEN "body length"
    ELSE IF b.json.t = "unparsable" THEN "parse"
    ELSE IF b.json.t # "object" THEN "object shape"
    ELSE IF b.json.jsonrpc # J("string", "2.0") \/ b.json.method.t # "string"
    THEN "envelope"
    ELSE IF b.json.id.t \notin IdTypes THEN "id type"
    ELSE "none"

\* the response to the request in slot r is the one of the gate
ResponseOfGate(r, gate) ==
    CASE gate = "preflight" -> resp[r].status = 204 /\ AnsweredFromHead(r)
      [] gate = "discovery" -> resp[r].body.kind = "card" /\ AnsweredFromHead(r)
      [] gate = "declared length" -> resp[r] = TooLarge /\ AnsweredFromHead(r)
      [] gate = "key" -> resp[r].status = 401 /\ AnsweredFromHead(r)
      [] gate = "streaming" -> resp[r].status = 501 /\ AnsweredFromHead(r)
      [] gate = "method" -> resp[r].status = 405 /\ AnsweredFromHead(r)
      [] gate = "other route" -> resp[r].status \in {200, 404} /\ AnsweredFromHead(r)
      [] gate = "body length" -> resp[r] = TooLarge /\ ~Dispatched(r)
      [] gate = "parse" ->
            /\ resp[r].status = 400 /\ resp[r].body.code = PARSE_ERROR
            /\ ~Dispatched(r)
      [] gate = "object shape" ->
            /\ resp[r].status = 400
            /\ resp[r].body.msg.text = "Request body must be a JSON object"
            /\ ~Dispatched(r)
      [] gate = "envelope" ->
            /\ resp[r].status = 400
            /\ resp[r].body.msg.text
                  = "Invalid JSON-RPC 2.0 request: requires jsonrpc='2.0' and method string"
            /\ ~Dispatched(r)
      [] gate = "id type" ->
            /\ resp[r].status = 400
            /\ resp[r].body.msg.text
                  = "Invalid JSON-RPC request: id must be string, number, or null"
            /\ ~Dispatched(r)
      [] OTHER -> Dispatched(r)

\* C29: the response to a request is that of the first gate it does not
\* pass, in the order preflight, discovery document, declared length, key,
\* streaming path, RPC path and method, body length, parse, object shape,
\* envelope fields, id type, and it is dispatched only when it passes them
\* all; hence a request without a key that declares an oversize length gets
\* 413, a POST without a key gets 401 before its body is read, and an
\* OPTIONS request gets 204 on every path without a key.
C29_FirstFailingGateAnswers ==
    \A r \in slots :
        /\ Answered(r) /\ FirstGateOnHead(http[r]) # "none"
              => ResponseOfGate(r, FirstGateOnHead(http[r]))
        /\ BodyRead(r) /\ FirstGateOnHead(http[r]) = "none"
              => ResponseOfGate(r, FirstGateOnBody(body[r]))
        /\ Dispatched(r) =>
              /\ FirstGateOnHead(http[r]) = "none"
              /\ FirstGateOnBody(body[r]) = "none"
        /\ Answered(r) /\ ~ValidKey(http[r]) =>
              /\ AnsweredFromHead(r)
              /\ resp[r].status =
                    CASE http[r].method = "OPTIONS" -> 204
                      [] http[r].method # "OPTIONS" /\ http[r].path = ServerCardPath -> 200
                      [] OTHER -> IF declaredTooLarge(http[r]) THEN 413 ELSE 401

\* a POST without a key that declares 1048577 bytes has been answered 413
C29_Witness ==
    \E r \in slots :
        /\ Answered(r)
        /\ Keyless(http[r])
        /\ http[r].method = "POST" /\ http[r].path = "/"
        /\ declaredTooLarge(http[r])
        /\ resp[r].status = 413

\* a body above the ceiling that is not JSON either has been answered 413
C29_LengthBeforeParseWitness ==
    \E r \in slots :
        /\ BodyRead(r)
        /\ body[r].chars > MAX_REQUEST_SIZE
        /\ body[r].json.t = "unparsable"
        /\ resp[r] = TooLarge

\* an envelope of version "1.0" with the id true has been answered with the
\* error of the envelope fields
C29_EnvelopeBeforeIdWitness ==
    \E r \in slots :
        /\ BodyRead(r)
        /\ FirstGateOnBody(body[r]) = "envelope"
        /\ body[r].json.id.t = "boolean"
        /\ resp[r].status = 400


(***************************************************************************)
(* C30                                                                     *)
(***************************************************************************)

\* the call of slot r made through request() has returned
RequestReturned(r) ==
    /\ calls[r] # <<>>
    /\ InFlight(r).fn = "request"
    /\ net[r].phase = "returned"

\* the timer callback of slot r runs in this step
AbortDelivered(r) == timer[r] # "fired" /\ timer'[r] = "fired"

\* C30: once a call made through request() has returned, on whichever path
\* (parsed 2xx, unparsable 2xx, non-2xx, network failure, timeout), its
\* timer is no longer pending: it was cancelled or it has fired; a timer is
\* pending only while its call awaits, and the abort is delivered only to a
\* call that has not returned.
C30_TimerCancelledOnEveryExit ==
    /\ [](\A r \in slots :
            /\ RequestReturned(r) => timer[r] \in {"cleared", "fired"}
            /\ timer[r] = "armed" =>
                  /\ pc[r] \in {"awaitFetch", "awaitJson"}
                  /\ InFlight(r).fn = "request"
                  /\ net[r].phase # "returned"
            /\ timer[r] = "cleared" => RequestReturned(r) /\ net[r].value.code # "TIMEOUT")
    /\ [][\A r \in slots :
            AbortDelivered(r) => timer[r] = "armed" /\ ~RequestReturned(r)]_vars

\* a call answered 500 without a JSON body has returned HTTP_500 and its
\* timer is cancelled
C30_Witness ==
    \E r \in slots :
        /\ Answered(r)
        /\ RequestReturned(r)
        /\ net[r].status = 500
        /\ net[r].value.code = "HTTP_500"
        /\ timer[r] = "cleared"

\* a call whose fetch failed has returned NETWORK_ERROR and its timer is
\* cancelled
C30_NetworkErrorWitness ==
    \E r \in slots :
        /\ RequestReturned(r)
        /\ net[r].status = 0
        /\ net[r].value = NetworkErrorResponse
        /\ timer[r] = "cleared"

====
